---- MODULE Spec2Model ----
(***************************************************************************)
(* Veloserver's Router: the per-method route tries built by registration   *)
(* (RouteNode.addPathPropertyHelper) and the dispatch of one request       *)
(* through them (Router.requestHandler), with the per-request Context.     *)
(* Callbacks supplied by the application (handlers, inspectors, the        *)
(* metadata factory) are modelled by the outcomes they can have.           *)
(***************************************************************************)
EXTENDS Naturals, Sequences, FiniteSets, TLC

\* ------------------------------------------------------------------ bounds
\* The most registration calls made on one router.
MaxRegs == 2
\* The most segments of a registered path.
MaxDepth == 2
\* The most segments of a requested path.
MaxReqLen == 2

\* Segments a registered path is written with, and segments a request has.
RegSegs == {"", "a", ":x", "*"}
ReqSegs == {"", "a", "42"}

\* All sequences over S of length lo..hi.
SeqsUpTo(S, lo, hi) == UNION {[1..k -> S] : k \in lo..hi}

\* ------------------------------------------------------------- the router
\* The methods that have a trie, and the methods a request may carry.
Methods == {"GET", "HEAD", "POST"}
RegMethods == {"GET"}
ReqMethods == {"GET", "POST", "PUT"}

\* `undefined` for a node reference or a handler.
Undefined == 0

\* A fresh RouteNode: the field initialisers of the class.
NewRouteNode ==
    [pathSegment |-> "", isWildcard |-> FALSE, pathVariable |-> "",
     inspectors |-> <<>>, childNodes |-> <<>>, handler |-> Undefined]

\* new Inspector(requestInspector?, responseInspector?, observeChildPaths?):
\* an absent observeChildPaths ("default") is true.
Inspector(id, hasRequestInspector, hasResponseInspector, observeChildPaths) ==
    [id |-> id,
     requestInspector |-> hasRequestInspector,
     responseInspector |-> hasResponseInspector,
     observeChildPaths |-> IF observeChildPaths = "default" THEN TRUE
                           ELSE observeChildPaths = "true"]

\* The inspector field of a registration that registers a handler.
NoInspector ==
    [id |-> 0, requestInspector |-> FALSE, responseInspector |-> FALSE,
     observeChildPaths |-> FALSE]

setPathSegment(node, pathSegment) == [node EXCEPT !.pathSegment = pathSegment]

\* setIsWildcard: pathVariable is assigned only when it is truthy (non-empty).
setIsWildcard(node, isWildcard, pathVariable) ==
    [node EXCEPT !.isWildcard = isWildcard,
                 !.pathVariable = IF pathVariable # "" THEN pathVariable ELSE @]

\* addInspector putting the new inspector first (unshift for push).
addInspector_unshift(node, inspector) ==
    [node EXCEPT !.inspectors = <<inspector>> \o @]

addInspector(node, inspector) ==
    [node EXCEPT !.inspectors = Append(@, inspector)]

\* setHandler without the test of this.handler: the last handler stays.
setHandler_overwrite(node, handler) == [node EXCEPT !.handler = handler]

\* setHandler: a second handler is logged and dropped.
setHandler(node, handler) ==
    IF node.handler # Undefined THEN node
    ELSE [node EXCEPT !.handler = handler]

\* The closure addPathHandler / addPathInspector hands to the helper.
setClosure(node, act) ==
    IF act.kind = "handler" THEN setHandler(node, act.id)
    ELSE addInspector(node, act.inspector)

\* A trie is the sequence of its nodes in creation order; node 1 is the root
\* and childNodes holds node indices in push order.
Root == 1
addChildNode(t, n, c) == [t EXCEPT ![n].childNodes = Append(@, c)]

\* Array.prototype.find over the childNodes of node n: the first child that
\* satisfies the callback, or Undefined. The callback is given as the set of
\* nodes of t it accepts.
FindChild(t, n, accepted) ==
    LET cs == t[n].childNodes
        hits == {i \in 1..Len(cs) : cs[i] \in accepted}
    IN IF hits = {} THEN Undefined
       ELSE cs[CHOOSE i \in hits : \A j \in hits : i <= j]

\* pathSegment.length > 1 && pathSegment.charAt(0) == ":" and substring(1),
\* over the segments the model writes paths with.
PathVariableOf == [s \in {":x", ":y"} |-> IF s = ":x" THEN "x" ELSE "y"]
IsPathVariableSegment(s) == s \in DOMAIN PathVariableOf

\* The segments after `*` dropped and the registration carried out on a new
\* splat child, as if the path had ended with the `*`.
SegmentsAfterSplat_registered(t, n, act) ==
    addChildNode(Append(t, setClosure(setIsWildcard(NewRouteNode, TRUE, "*"), act)),
                 n, Len(t) + 1)

\* if (pathSegments.length > 0) console.log(`ERROR ...`): nothing but the
\* log line happens at node n, and the helper returns.
SegmentsAfterSplat(t, n, act) == t

\* The lookup asking for the name as well: a child of another name is not
\* found.
WildcardChild_sameName(t, n, pathVariable) ==
    FindChild(t, n, {c \in 1..Len(t) : t[c].isWildcard /\ t[c].pathVariable = pathVariable})

\* this.childNodes.find(node => node.isWildcard), the lookup of the `:name`
\* branch: the name that is being registered plays no part in it.
WildcardChild(t, n, pathVariable) ==
    FindChild(t, n, {c \in 1..Len(t) : t[c].isWildcard})

RECURSIVE addPathPropertyHelper(_, _, _, _)
addPathPropertyHelper(t, n, pathSegments, act) ==
    IF Len(pathSegments) = 0 THEN [t EXCEPT ![n] = setClosure(@, act)]
    ELSE
    LET pathSegment == Head(pathSegments)
        rest == Tail(pathSegments)
        new == Len(t) + 1
        \* Apply the closure to, or descend into, child c of trie u.
        Into(u, c) == IF Len(rest) = 0 THEN [u EXCEPT ![c] = setClosure(@, act)]
                      ELSE addPathPropertyHelper(u, c, rest, act)
    IN
    IF pathSegment = "*" THEN
        IF Len(rest) > 0 THEN SegmentsAfterSplat(t, n, act)
        ELSE addChildNode(
                Append(t, setClosure(setIsWildcard(NewRouteNode, TRUE, "*"), act)),
                n, new)
    ELSE IF IsPathVariableSegment(pathSegment) THEN
        LET child == WildcardChild(t, n, PathVariableOf[pathSegment])
        IN IF child # Undefined THEN Into(t, child)
           ELSE addChildNode(
                   Into(Append(t, setIsWildcard(NewRouteNode, TRUE,
                                                PathVariableOf[pathSegment])), new),
                   n, new)
    ELSE
        LET child == FindChild(t, n, {c \in 1..Len(t) : t[c].pathSegment = pathSegment})
        IN IF child # Undefined THEN Into(t, child)
           ELSE addChildNode(
                   Into(Append(t, setPathSegment(NewRouteNode, pathSegment)), new),
                   n, new)

\* pathSegmentsFromPath: path.split("/") with the first part shifted off. A
\* path is held as the parts after its first "/": "/a/:x" is <<"a", ":x">>,
\* "/" is <<"">> and "" is <<>>.
Split(path) == <<"">> \o path
pathSegmentsFromPath(path) == Tail(Split(path))

\* -------------------------------------------------------------- the state
VARIABLES
    routes,              \* method -> trie (#get_routes, #head_routes, #post_routes)
    regs,                \* the registration calls made so far, in order
    pc,                  \* where requestHandler stands: idle, walk, respond, done
    request,             \* the Request being handled
    context,             \* its Context
    nextRouteNode,       \* requestHandler's locals
    inspectorIndex,
    responseInspectors,
    closestWildcard,
    response,            \* #processResponseInspectors' response argument
    responseIndex,       \* ... and its position in the responseInspectors loop
    result,              \* how the promise requestHandler returned settled
    log,                 \* the callbacks invoked for this request, in order
    parked,              \* another call of requestHandler, suspended at an await
    server,              \* the Server that wraps the router: callbacks and phase
    mounting             \* the calls of mountFiles under way, and their caller

vars == <<routes, regs, pc, request, context, nextRouteNode, inspectorIndex,
          responseInspectors, closestWildcard, response, responseIndex, result, log,
          parked, server, mounting>>

routerVars == <<routes, regs, pc, request, context, nextRouteNode, inspectorIndex,
                responseInspectors, closestWildcard, response, responseIndex, result,
                log, parked, mounting>>

dispatchVars == <<pc, request, context, nextRouteNode, inspectorIndex,
                  responseInspectors, closestWildcard, response, responseIndex,
                  result, log>>

NoRequest == [method |-> "", path |-> <<>>]
NoContext == [url |-> <<>>, pathParts |-> <<>>, memoized |-> FALSE,
              pathVariables |-> {}, meta |-> ""]
NoResponse == [by |-> "", id |-> 0, ok |-> TRUE]
NoResult == [kind |-> "pending", response |-> NoResponse]

\* new Server(router): no callback is registered and serve() was not called.
\* listening and finishing are the positions of the two callback loops:
\* "no" before the loop starts, "loop", and "done" after its last pass; calls
\* is the record of the callbacks started and settled, in order.
NewServer ==
    [listenCallbacks |-> <<>>, finishedCallbacks |-> <<>>, served |-> FALSE,
     aborted |-> FALSE, exited |-> FALSE,
     listening |-> "no", listenIndex |-> 0, listenAwaits |-> FALSE,
     finishing |-> "no", finishedIndex |-> 0, finishedAwaits |-> FALSE,
     calls |-> <<>>]

\* No call of mountFiles was made. tree is the target directory, frames are
\* the calls of mountFiles made so far (the first is the application's),
\* stack is the call stack of those that are running, and returned tells
\* that the application's `await router.mountFiles(...)` has returned.
NotMounting ==
    [started |-> FALSE, tree |-> <<>>, memoized |-> FALSE, frames |-> <<>>,
     stack |-> <<>>, returned |-> FALSE]

Idle ==
    /\ pc = "idle"
    /\ request = NoRequest
    /\ context = NoContext
    /\ nextRouteNode = Undefined
    /\ inspectorIndex = 0
    /\ responseInspectors = <<>>
    /\ closestWildcard = Undefined
    /\ response = NoResponse
    /\ responseIndex = 0
    /\ result = NoResult
    /\ log = <<>>

\* The locals of a call of requestHandler that has not been made.
NotCalled ==
    [pc |-> "idle", request |-> NoRequest, context |-> NoContext,
     nextRouteNode |-> Undefined, inspectorIndex |-> 0, responseInspectors |-> <<>>,
     closestWildcard |-> Undefined, response |-> NoResponse, responseIndex |-> 0,
     result |-> NoResult, log |-> <<>>]

Init ==
    /\ routes = [m \in Methods |-> <<NewRouteNode>>]
    /\ regs = <<>>
    /\ Idle
    /\ parked = NotCalled
    /\ server = NewServer
    /\ mounting = NotMounting

\* ------------------------------------------------------------ registration
RegPaths == SeqsUpTo(RegSegs, 0, MaxDepth)

\* Router.get / head / post (a single path): #addPathHandlerToNode.
\* The handler registered by the k-th call is handler k.
AddHandler(m, path) ==
    /\ pc = "idle"
    /\ LET id == Len(regs) + 1 IN
       /\ routes' = [routes EXCEPT ![m] =
              addPathPropertyHelper(@, Root, pathSegmentsFromPath(path),
                                    [kind |-> "handler", id |-> id])]
       /\ regs' = Append(regs, [kind |-> "handler", id |-> id, method |-> m,
                                path |-> path, inspector |-> NoInspector,
                                closure |-> "callback", memoized |-> FALSE,
                                readsAtMount |-> 0])
    /\ UNCHANGED <<dispatchVars, parked, server, mounting>>

\* The shapes of Inspector the model registers: which of the two inspectors
\* are given, and the observeChildPaths argument.
InspectorShapes ==
    {<<TRUE, TRUE, "default">>, <<TRUE, TRUE, "false">>,
     <<TRUE, FALSE, "default">>, <<FALSE, TRUE, "default">>}

\* Router.addGetInspector / addHeadInspector / addPostInspector (a single
\* path): #addPathInspectorToNode. The k-th call registers inspector k.
AddInspector(m, path, shape) ==
    /\ pc = "idle"
    /\ LET id == Len(regs) + 1
           inspector == Inspector(id, shape[1], shape[2], shape[3])
       IN
       /\ routes' = [routes EXCEPT ![m] =
              addPathPropertyHelper(@, Root, pathSegmentsFromPath(path),
                                    [kind |-> "inspector", inspector |-> inspector])]
       /\ regs' = Append(regs, [kind |-> "inspector", id |-> id, method |-> m,
                                path |-> path, inspector |-> inspector,
                                closure |-> "callback", memoized |-> FALSE,
                                readsAtMount |-> 0])
    /\ UNCHANGED <<dispatchVars, parked, server, mounting>>

\* Router.addAllInspector (a single path): addGetInspector, addHeadInspector
\* and addPostInspector with the one Inspector object. The k-th call
\* registers inspector k.
addAllInspector(path, shape) ==
    /\ pc = "idle"
    /\ LET id == Len(regs) + 1
           inspector == Inspector(id, shape[1], shape[2], shape[3])
       IN
       /\ routes' = [m \in Methods |->
              IF m \in {"GET", "HEAD", "POST"}
              THEN addPathPropertyHelper(routes[m], Root, pathSegmentsFromPath(path),
                                         [kind |-> "inspector", inspector |-> inspector])
              ELSE routes[m]]
       /\ regs' = Append(regs, [kind |-> "inspector", id |-> id, method |-> "ALL",
                                path |-> path, inspector |-> inspector,
                                closure |-> "callback", memoized |-> FALSE,
                                readsAtMount |-> 0])
    /\ UNCHANGED <<dispatchVars, parked, server, mounting>>

\* mountFiles(mountDir, targetDir, memoized) for a directory that holds one
\* regular file, path being mountDir + dirEntry.name: the handler that GET
\* path gets is the closure of #serveFile, which stats and opens the file
\* when it is called, or the closure that #serveMemoizedFile returns after
\* it has read the file into a buffer. The k-th call registers handler k.
MountedClosure(memoized) ==
    IF memoized THEN "serveFile" ELSE "serveMemoizedFile"
ReadsAtMount(closure) == IF closure = "serveMemoizedFile" THEN 1 ELSE 0
ReadsAtRequest(closure) == IF closure = "serveFile" THEN 1 ELSE 0

\* this.get(mountDir + dirEntry.name, <closure>) for one file.
GetFile(path, memoized) ==
    LET id == Len(regs) + 1
        closure == MountedClosure(memoized)
    IN
    /\ routes' = [routes EXCEPT !["GET"] =
           addPathPropertyHelper(@, Root, pathSegmentsFromPath(path),
                                 [kind |-> "handler", id |-> id])]
    /\ regs' = Append(regs, [kind |-> "handler", id |-> id, method |-> "GET",
                             path |-> path, inspector |-> NoInspector,
                             closure |-> closure, memoized |-> memoized,
                             readsAtMount |-> ReadsAtMount(closure)])

mountFiles(path, memoized) ==
    /\ pc = "idle"
    /\ GetFile(path, memoized)
    /\ UNCHANGED <<dispatchVars, parked, server, mounting>>

\* The application's setup code: at most MaxRegs registration calls.
Register ==
    /\ Len(regs) < MaxRegs
    /\ \E m \in RegMethods, path \in RegPaths :
          \/ AddHandler(m, path)
          \/ \E shape \in InspectorShapes : AddInspector(m, path, shape)

\* ----------------------------------------------------------------- Context
\* new Context(request, meta): the URL is held as the parts of its pathname
\* after the first "/"; pathVariables is undefined (no pair) and #pathParts
\* is not computed yet.
NewContext(path, meta) ==
    [url |-> path, pathParts |-> <<>>, memoized |-> FALSE,
     pathVariables |-> {}, meta |-> meta]

\* Context.getPathParts: computes url.pathname.split("/") on the first call
\* and returns the array it keeps (the caller's shift() acts on that array).
getPathParts(ctx) ==
    IF ctx.memoized THEN ctx
    ELSE [ctx EXCEPT !.pathParts = Split(ctx.url), !.memoized = TRUE]

\* Context.addPathVariable: Map.set, on a map created at the first capture.
\* The map is the set of its <<name, value>> pairs.
addPathVariable(ctx, pathVariableName, pathVariableValue) ==
    [ctx EXCEPT !.pathVariables =
        {p \in @ : p[1] # pathVariableName}
            \cup {<<pathVariableName, pathVariableValue>>}]

\* The metadata the factory returns, and the value request inspector id
\* stores in context.meta when it stores one.
InitialMeta == "initial"
MetaWrittenBy(id) == <<"uid1", "uid2", "uid3", "uid4">>[id]

\* The inspector assigning to the context it was handed, as if it had been
\* handed a copy: the request's own context keeps its meta.
WriteMeta_onCopy(ctx, id) == ctx

\* A request inspector assigning to the meta of the context it was handed,
\* which is the request's own Context object.
WriteMeta(ctx, id) == [ctx EXCEPT !.meta = MetaWrittenBy(id)]

\* ---------------------------------------------------------------- dispatch
\* What a callback can do when it is invoked.
FactoryOutcomes == {"returns", "throws"}
RequestInspectorOutcomes == {"continue", "halt", "malformed", "throws", "rejects"}
HandlerOutcomes == {"returns", "throws", "rejects"}
ResponseInspectorOutcomes == {"returns", "throws", "rejects"}

\* A Response is known by who made it; ok = FALSE is a promise that rejects.
HandlerResponse(id, outcome) == [by |-> "handler", id |-> id, ok |-> outcome = "returns"]
InspectorResponse(id) == [by |-> "inspector", id |-> id, ok |-> TRUE]
\* default_not_found_handler (404) and default_server_error_handler (500).
NotFoundResponse == [by |-> "notFound", id |-> 404, ok |-> TRUE]
ServerErrorResponse == [by |-> "serverError", id |-> 500, ok |-> TRUE]

\* What a callback did, as the log keeps it: who it was, how it ended, the
\* response it was given, the context.meta it was given, what
\* context.getPathParts() returns to it and how often it read a file.
Event(ev, id, out, resp) ==
    [ev |-> ev, id |-> id, out |-> out, resp |-> resp, meta |-> context.meta,
     parts |-> getPathParts(context).pathParts,
     fileReads |-> IF ev = "handler" THEN ReadsAtRequest(regs[id].closure) ELSE 0]
NotFoundEvent == Event("notFound", 0, "returns", NoResponse)
ServerErrorEvent == Event("serverError", 0, "returns", NoResponse)

Resolved(resp) == [kind |-> "resolved", response |-> resp]
Rejected == [kind |-> "rejected", response |-> NoResponse]

\* The requests made: every path on GET; one path on a method whose trie
\* holds no route (POST) and on a method that has no trie (PUT).
RequestPaths == SeqsUpTo(ReqSegs, 1, MaxReqLen)
Requests ==
    {[method |-> "GET", path |-> p] : p \in RequestPaths}
        \cup {[method |-> m, path |-> <<"a">>] : m \in ReqMethods \ {"GET"}}

Trie == routes[request.method]
Node == Trie[nextRouteNode]

\* The scope test of the inspector loop:
\* pathParts.length == 0 || inspector.observeChildPaths.
InScope(inspector, pathParts) ==
    Len(pathParts) = 0 \/ inspector.observeChildPaths

\* Collect with the scope test cut to its first half: a response inspector
\* is pushed only at the node the request ends on.
Collect_exactOnly(queue, inspector, pathParts) ==
    IF inspector.responseInspector /\ Len(pathParts) = 0
    THEN Append(queue, inspector.id)
    ELSE queue

\* The end of the loop body: the response inspector of an entry in scope is
\* pushed on responseInspectors.
Collect(queue, inspector, pathParts) ==
    IF inspector.responseInspector /\ InScope(inspector, pathParts)
    THEN Append(queue, inspector.id)
    ELSE queue

\* WildcardSplitChild testing pathSegment, which a splat node leaves empty,
\* where the code tests pathVariable.
WildcardSplitChild_bySegment(t, n) ==
    FindChild(t, n, {c \in 1..Len(t) : t[c].isWildcard /\ t[c].pathSegment = "*"})

\* childNodes.find(n => n.isWildcard && n.pathVariable == "*")
WildcardSplitChild(t, n) ==
    FindChild(t, n, {c \in 1..Len(t) : t[c].isWildcard /\ t[c].pathVariable = "*"})

\* NextChild without the isWildcard alternative.
NextChild_literalOnly(t, n, pathSegment) ==
    FindChild(t, n, {c \in 1..Len(t) : t[c].pathSegment = pathSegment})

\* childNodes.find(n => n.isWildcard || n.pathSegment == pathSegment)
NextChild(t, n, pathSegment) ==
    FindChild(t, n, {c \in 1..Len(t) : t[c].isWildcard \/ t[c].pathSegment = pathSegment})

\* Catch handing the server-error handler's response to the response
\* inspectors collected so far.
Catch_throughQueue(events) ==
    /\ log' = log \o events \o <<ServerErrorEvent>>
    /\ response' = ServerErrorResponse
    /\ responseIndex' = 1
    /\ pc' = "respond"
    /\ UNCHANGED result

\* The catch block: the fault is logged and the server-error handler's
\* response is returned as it is.
Catch(events) ==
    /\ log' = log \o events \o <<ServerErrorEvent>>
    /\ result' = Resolved(ServerErrorResponse)
    /\ pc' = "done"
    /\ UNCHANGED <<response, responseIndex>>

\* return this.#processResponseInspectors(responseInspectors, request, r, context)
ReturnThrough(events, r) ==
    /\ log' = log \o events
    /\ response' = r
    /\ responseIndex' = 1
    /\ pc' = "respond"
    /\ UNCHANGED result

\* this.#context_metadata_constructor(request): the call of a factory that
\* the constructor was not given, `new Router({})`, is the call of undefined,
\* which throws a TypeError.
AbsentFactory == "absent"
FactoryFaults(outcome) == outcome \in {"throws", AbsentFactory}

\* The unsupported method treated as a fault: the server-error handler's
\* output is returned.
UnsupportedMethod_asFault(path) ==
    /\ log' = <<Event("factory", 0, "returns", NoResponse),
                 [ServerErrorEvent EXCEPT
                     !.meta = InitialMeta,
                     !.parts = getPathParts(NewContext(path, InitialMeta)).pathParts]>>
    /\ context' = NewContext(path, InitialMeta)
    /\ result' = Resolved(ServerErrorResponse)
    /\ pc' = "done"

\* if (!nextRouteNode): the not-found handler's output is returned as it is,
\* from inside the try block, after the factory returned.
UnsupportedMethod(path) ==
    /\ log' = <<Event("factory", 0, "returns", NoResponse),
                 [NotFoundEvent EXCEPT
                     !.meta = InitialMeta,
                     !.parts = getPathParts(NewContext(path, InitialMeta)).pathParts]>>
    /\ context' = NewContext(path, InitialMeta)
    /\ result' = Resolved(NotFoundResponse)
    /\ pc' = "done"

\* requestHandler up to the start of the walk. The metadata factory and the
\* Context constructor run before the try block: a fault there rejects.
Receive(m, path, outcome) ==
    /\ pc = "idle"
    /\ request' = [method |-> m, path |-> path]
    /\ IF FactoryFaults(outcome) THEN
          /\ log' = <<Event("factory", 0, outcome, NoResponse)>>
          /\ result' = Rejected
          /\ pc' = "done"
          /\ UNCHANGED <<context, nextRouteNode, inspectorIndex>>
       ELSE IF m \notin Methods THEN
          /\ UnsupportedMethod(path)
          /\ UNCHANGED <<nextRouteNode, inspectorIndex>>
       ELSE
          /\ log' = <<Event("factory", 0, outcome, NoResponse)>>
          /\ context' = [getPathParts(NewContext(path, InitialMeta))
                            EXCEPT !.pathParts = Tail(@)]
          /\ nextRouteNode' = Root
          /\ inspectorIndex' = 1
          /\ pc' = "walk"
          /\ UNCHANGED result
    /\ UNCHANGED <<routes, regs, parked, server, mounting, responseInspectors, closestWildcard,
                   response, responseIndex>>

\* The malformed outcome treated as a fault: the catch block's return.
NoResponseNoContinue_asFault(called) == Catch(<<called>>)

\* The first malformed outcome of a request logged and passed over, the loop
\* going on with the inspectors.
NoResponseNoContinue_goesOn(called) ==
    IF \E i \in 1..Len(log) : log[i].out = "malformed"
    THEN ReturnThrough(<<called, ServerErrorEvent>>, ServerErrorResponse)
    ELSE /\ log' = Append(log, called)
         /\ UNCHANGED <<pc, response, responseIndex, result>>

\* else if (!requestInspectorResponse.shouldContinue): the server-error
\* handler's output goes through the response inspectors collected so far.
NoResponseNoContinue(called) ==
    ReturnThrough(<<called, ServerErrorEvent>>, ServerErrorResponse)

\* A RequestInspectorResponse is known by its two fields: "continue" is
\* (shouldContinue true, no response), "halt" (false, a response),
\* "haltContinue" (true, a response) and "malformed" (false, no response).
ResponseSet(outcome) == outcome \in {"halt", "haltContinue"}
ShouldContinue(outcome) == outcome \in {"continue", "haltContinue"}

\* The loop testing shouldContinue before it tests response.
Continues_flagFirst(outcome) == ShouldContinue(outcome)

\* Neither `if (requestInspectorResponse.response)` nor
\* `else if (!requestInspectorResponse.shouldContinue)` is taken.
Continues(outcome) == ~ResponseSet(outcome) /\ ShouldContinue(outcome)

\* One entry of the inspector loop whose request inspector is invoked. An
\* inspector that continues or halts may have stored a value in context.meta.
InvokeRequestInspector(outcome) ==
    /\ pc = "walk"
    /\ nextRouteNode # Undefined
    /\ inspectorIndex <= Len(Node.inspectors)
    /\ \E writes \in BOOLEAN :
       LET inspector == Node.inspectors[inspectorIndex]
           called == Event("requestInspector", inspector.id, outcome, NoResponse)
           events == IF writes
                     THEN <<called, Event("metaWrite", inspector.id, outcome, NoResponse)>>
                     ELSE <<called>>
       IN
       /\ inspector.requestInspector
       /\ InScope(inspector, context.pathParts)
       /\ writes => outcome \in {"continue", "halt", "haltContinue"}
       /\ context' = IF writes THEN WriteMeta(context, inspector.id) ELSE context
       /\ CASE Continues(outcome) ->
                 /\ log' = log \o events
                 /\ responseInspectors' =
                       Collect(responseInspectors, inspector, context.pathParts)
                 /\ inspectorIndex' = inspectorIndex + 1
                 /\ UNCHANGED <<pc, response, responseIndex, result>>
            [] ResponseSet(outcome) ->
                 /\ ReturnThrough(events, InspectorResponse(inspector.id))
                 /\ UNCHANGED <<responseInspectors, inspectorIndex>>
            [] outcome = "malformed" ->
                 /\ NoResponseNoContinue(called)
                 /\ UNCHANGED <<responseInspectors, inspectorIndex>>
            [] OTHER ->
                 /\ Catch(<<called>>)
                 /\ UNCHANGED <<responseInspectors, inspectorIndex>>
    /\ UNCHANGED <<routes, regs, parked, server, mounting, request, nextRouteNode, closestWildcard>>

\* PassInspector taking the entry off the node's inspectors as it goes
\* (shift() on the node's array).
PassInspector_shift ==
    /\ pc = "walk"
    /\ nextRouteNode # Undefined
    /\ inspectorIndex <= Len(Node.inspectors)
    /\ LET inspector == Node.inspectors[inspectorIndex] IN
       /\ ~(inspector.requestInspector /\ InScope(inspector, context.pathParts))
       /\ responseInspectors' =
             Collect(responseInspectors, inspector, context.pathParts)
    /\ inspectorIndex' = inspectorIndex + 1
    /\ routes' = [routes EXCEPT ![request.method] =
                     [@ EXCEPT ![nextRouteNode].inspectors = Tail(@)]]
    /\ UNCHANGED <<regs, parked, server, mounting, pc, request, context, nextRouteNode,
                   closestWildcard, response, responseIndex, result, log>>

\* One entry of the inspector loop whose request inspector is absent or out
\* of scope: only the response inspector may be collected.
PassInspector ==
    /\ pc = "walk"
    /\ nextRouteNode # Undefined
    /\ inspectorIndex <= Len(Node.inspectors)
    /\ LET inspector == Node.inspectors[inspectorIndex] IN
       /\ ~(inspector.requestInspector /\ InScope(inspector, context.pathParts))
       /\ responseInspectors' =
             Collect(responseInspectors, inspector, context.pathParts)
    /\ inspectorIndex' = inspectorIndex + 1
    /\ UNCHANGED <<routes, regs, parked, server, mounting, pc, request, context, nextRouteNode,
                   closestWildcard, response, responseIndex, result, log>>

\* CallHandler calling the handler a second time for the value it hands on.
CallHandler_twice(id, outcome) ==
    LET called == Event("handler", id, outcome, NoResponse) IN
    IF outcome = "throws" THEN Catch(<<called>>)
    ELSE ReturnThrough(<<called, called>>, HandlerResponse(id, outcome))

\* A handler is called inside the try block and its value handed to
\* #processResponseInspectors: a throw is caught, a promise is passed on.
CallHandler(id, outcome) ==
    LET called == Event("handler", id, outcome, NoResponse) IN
    IF outcome = "throws" THEN Catch(<<called>>)
    ELSE ReturnThrough(<<called>>, HandlerResponse(id, outcome))

CallNotFound == ReturnThrough(<<NotFoundEvent>>, NotFoundResponse)

\* HandleAtNode falling back on the closest splat when the node has no
\* handler, as the end of the walk does.
HandleAtNode_closestWildcard(outcome) ==
    /\ pc = "walk"
    /\ nextRouteNode # Undefined
    /\ inspectorIndex > Len(Node.inspectors)
    /\ Len(context.pathParts) = 0
    /\ IF Node.handler # Undefined THEN CallHandler(Node.handler, outcome)
       ELSE IF closestWildcard # Undefined
       THEN CallHandler(Trie[closestWildcard].handler, outcome)
       ELSE outcome = "returns" /\ CallNotFound
    /\ UNCHANGED <<routes, regs, parked, server, mounting, request, context, nextRouteNode, inspectorIndex,
                   responseInspectors, closestWildcard>>

\* No more parts: the node's handler, or the not-found handler.
HandleAtNode(outcome) ==
    /\ pc = "walk"
    /\ nextRouteNode # Undefined
    /\ inspectorIndex > Len(Node.inspectors)
    /\ Len(context.pathParts) = 0
    /\ IF Node.handler # Undefined THEN CallHandler(Node.handler, outcome)
       ELSE outcome = "returns" /\ CallNotFound
    /\ UNCHANGED <<routes, regs, parked, server, mounting, request, context, nextRouteNode, inspectorIndex,
                   responseInspectors, closestWildcard>>

\* The rest of the loop body: shift the next part off, remember a splat child
\* that has a handler, and move to the child that find() gives.
Descend ==
    /\ pc = "walk"
    /\ nextRouteNode # Undefined
    /\ inspectorIndex > Len(Node.inspectors)
    /\ Len(context.pathParts) > 0
    /\ LET pathSegment == Head(context.pathParts)
           shifted == [context EXCEPT !.pathParts = Tail(@)]
           wildcardSplitChild == WildcardSplitChild(Trie, nextRouteNode)
           next == NextChild(Trie, nextRouteNode, pathSegment)
       IN
       /\ closestWildcard' =
             IF wildcardSplitChild # Undefined
                /\ Trie[wildcardSplitChild].handler # Undefined
             THEN wildcardSplitChild ELSE closestWildcard
       /\ nextRouteNode' = next
       /\ context' =
             IF next # Undefined /\ Trie[next].isWildcard
                /\ Trie[next].pathVariable # "*"
             THEN addPathVariable(shifted, Trie[next].pathVariable, pathSegment)
             ELSE shifted
    /\ inspectorIndex' = 1
    /\ UNCHANGED <<routes, regs, parked, server, mounting, pc, request, responseInspectors, response,
                   responseIndex, result, log>>

\* After the loop: the closest splat's handler, or the not-found handler.
Fallback(outcome) ==
    /\ pc = "walk"
    /\ nextRouteNode = Undefined
    /\ IF closestWildcard # Undefined /\ Trie[closestWildcard].handler # Undefined
       THEN CallHandler(Trie[closestWildcard].handler, outcome)
       ELSE outcome = "returns" /\ CallNotFound
    /\ UNCHANGED <<routes, regs, parked, server, mounting, request, context, nextRouteNode, inspectorIndex,
                   responseInspectors, closestWildcard>>

\* #processResponseInspectors: await the response, then call the response
\* inspectors in order. Its promise is returned without being awaited inside
\* the try block, so a rejection of it is the rejection of requestHandler.
\* The loop stopping one entry early.
MoreResponseInspectors_short(queue, i) == i < Len(queue)

\* for (const responseInspector of responseInspectors): entry i is there.
MoreResponseInspectors(queue, i) == i <= Len(queue)

AwaitResponseRejects ==
    /\ pc = "respond"
    /\ ~response.ok
    /\ result' = Rejected
    /\ pc' = "done"
    /\ UNCHANGED <<routes, regs, parked, server, mounting, request, context, nextRouteNode, inspectorIndex,
                   responseInspectors, closestWildcard, response, responseIndex, log>>

InvokeResponseInspector(outcome) ==
    /\ pc = "respond"
    /\ response.ok
    /\ MoreResponseInspectors(responseInspectors, responseIndex)
    /\ log' = Append(log, Event("responseInspector",
                                responseInspectors[responseIndex], outcome, response))
    /\ IF outcome = "returns"
       THEN /\ responseIndex' = responseIndex + 1
            /\ UNCHANGED <<pc, result>>
       ELSE /\ result' = Rejected
            /\ pc' = "done"
            /\ UNCHANGED responseIndex
    /\ UNCHANGED <<routes, regs, parked, server, mounting, request, context, nextRouteNode, inspectorIndex,
                   responseInspectors, closestWildcard, response>>

ReturnResponse ==
    /\ pc = "respond"
    /\ response.ok
    /\ ~MoreResponseInspectors(responseInspectors, responseIndex)
    /\ result' = Resolved(response)
    /\ pc' = "done"
    /\ UNCHANGED <<routes, regs, parked, server, mounting, request, context, nextRouteNode, inspectorIndex,
                   responseInspectors, closestWildcard, response, responseIndex, log>>

\* The request is over: its Context and the locals are dropped.
Finish ==
    /\ pc = "done"
    /\ pc' = "idle"
    /\ request' = NoRequest
    /\ context' = NoContext
    /\ nextRouteNode' = Undefined
    /\ inspectorIndex' = 0
    /\ responseInspectors' = <<>>
    /\ closestWildcard' = Undefined
    /\ response' = NoResponse
    /\ responseIndex' = 0
    /\ result' = NoResult
    /\ log' = <<>>
    /\ UNCHANGED <<routes, regs, parked, server, mounting>>

Dispatch ==
    \/ \E r \in Requests, o \in FactoryOutcomes : Receive(r.method, r.path, o)
    \/ \E o \in RequestInspectorOutcomes : InvokeRequestInspector(o)
    \/ PassInspector
    \/ \E o \in HandlerOutcomes : HandleAtNode(o)
    \/ Descend
    \/ \E o \in HandlerOutcomes : Fallback(o)
    \/ AwaitResponseRejects
    \/ \E o \in ResponseInspectorOutcomes : InvokeResponseInspector(o)
    \/ ReturnResponse
    \/ Finish

Next == Register \/ Dispatch
Spec == Init /\ [][Next]_vars

\* ------------------------------------------------- several methods at once
\* The same router with registrations on two of its three tries and requests
\* on every trie and on a method that has none, over fewer paths.
MaxMethodRegs == 3
MethodRegMethods == {"GET", "POST"}
MethodRegPaths == {<<"">>, <<"a">>, <<":x">>}
MethodRequests ==
    {[method |-> m, path |-> p] :
        m \in {"GET", "HEAD", "POST", "PUT"}, p \in {<<"">>, <<"a">>}}

RegisterAcross ==
    /\ Len(regs) < MaxMethodRegs
    /\ \E m \in MethodRegMethods, path \in MethodRegPaths :
          \/ AddHandler(m, path)
          \/ \E shape \in {<<TRUE, TRUE, "default">>, <<FALSE, TRUE, "default">>} :
                AddInspector(m, path, shape)

DispatchAcross ==
    \/ \E r \in MethodRequests, o \in FactoryOutcomes : Receive(r.method, r.path, o)
    \/ \E o \in RequestInspectorOutcomes : InvokeRequestInspector(o)
    \/ PassInspector
    \/ \E o \in HandlerOutcomes : HandleAtNode(o)
    \/ Descend
    \/ \E o \in HandlerOutcomes : Fallback(o)
    \/ AwaitResponseRejects
    \/ \E o \in ResponseInspectorOutcomes : InvokeResponseInspector(o)
    \/ ReturnResponse
    \/ Finish

NextAcross == RegisterAcross \/ DispatchAcross
MethodSpec == Init /\ [][NextAcross]_vars

\* ------------------------------------------------ two requests interleaved
\* requestHandler is an async function: a call runs until it awaits (a
\* request inspector's promise, the response's promise, a response
\* inspector's promise) and another call may run meanwhile. Each call has
\* its own locals and its own Context; the variables of the dispatch above
\* are those of the call that is running and parked holds those of the other.
Locals ==
    [pc |-> pc, request |-> request, context |-> context,
     nextRouteNode |-> nextRouteNode, inspectorIndex |-> inspectorIndex,
     responseInspectors |-> responseInspectors, closestWildcard |-> closestWildcard,
     response |-> response, responseIndex |-> responseIndex,
     result |-> result, log |-> log]

\* Switch with one responseInspectors array for every call, as a field of
\* the router would be.
Switch_sharedQueue ==
    /\ pc # "idle" \/ parked.pc # "idle"
    /\ parked' = Locals
    /\ pc' = parked.pc
    /\ request' = parked.request
    /\ context' = parked.context
    /\ nextRouteNode' = parked.nextRouteNode
    /\ inspectorIndex' = parked.inspectorIndex
    /\ closestWildcard' = parked.closestWildcard
    /\ response' = parked.response
    /\ responseIndex' = parked.responseIndex
    /\ result' = parked.result
    /\ log' = parked.log
    /\ UNCHANGED <<routes, regs, server, mounting, responseInspectors>>

\* The running call is suspended and the other call runs, or is made. The
\* switch is allowed between any two steps of a call, which covers every
\* await of requestHandler.
Switch ==
    /\ pc # "idle" \/ parked.pc # "idle"
    /\ parked' = Locals
    /\ pc' = parked.pc
    /\ request' = parked.request
    /\ context' = parked.context
    /\ nextRouteNode' = parked.nextRouteNode
    /\ inspectorIndex' = parked.inspectorIndex
    /\ responseInspectors' = parked.responseInspectors
    /\ closestWildcard' = parked.closestWildcard
    /\ response' = parked.response
    /\ responseIndex' = parked.responseIndex
    /\ result' = parked.result
    /\ log' = parked.log
    /\ UNCHANGED <<routes, regs, server, mounting>>

MaxConcurrentRegs == 2
ConcurrentRegPaths == {<<"a">>, <<":x">>, <<"*">>}
ConcurrentRequests ==
    {[method |-> "GET", path |-> p] : p \in {<<"a">>, <<"42">>, <<"a", "42">>}}

\* All registration is done before the first request is served.
RegisterBeforeServing ==
    /\ Len(regs) < MaxConcurrentRegs
    /\ parked.pc = "idle"
    /\ \E path \in ConcurrentRegPaths :
          \/ AddHandler("GET", path)
          \/ \E shape \in {<<TRUE, TRUE, "default">>, <<FALSE, TRUE, "default">>} :
                AddInspector("GET", path, shape)

DispatchInterleaved ==
    \/ \E r \in ConcurrentRequests, o \in FactoryOutcomes : Receive(r.method, r.path, o)
    \/ \E o \in RequestInspectorOutcomes : InvokeRequestInspector(o)
    \/ PassInspector
    \/ \E o \in HandlerOutcomes : HandleAtNode(o)
    \/ Descend
    \/ \E o \in HandlerOutcomes : Fallback(o)
    \/ AwaitResponseRejects
    \/ \E o \in ResponseInspectorOutcomes : InvokeResponseInspector(o)
    \/ ReturnResponse
    \/ Finish
    \/ Switch

NextConcurrent == RegisterBeforeServing \/ DispatchInterleaved
ConcurrentSpec == Init /\ [][NextConcurrent]_vars

\* --------------------------------------------------------- mounted files
\* A router whose handlers are mounted files, with inspectors around them.
MaxMounts == 2
MountPaths == {<<"a">>, <<"a", "a">>}
MountRequests == {[method |-> "GET", path |-> p] : p \in MountPaths \cup {<<"42">>}}

RegisterMounts ==
    /\ Len(regs) < MaxMounts
    /\ \E path \in MountPaths :
          \/ \E memoized \in BOOLEAN : mountFiles(path, memoized)
          \/ \E shape \in {<<TRUE, TRUE, "default">>, <<FALSE, TRUE, "default">>} :
                AddInspector("GET", path, shape)

DispatchMounted ==
    \/ \E r \in MountRequests, o \in FactoryOutcomes : Receive(r.method, r.path, o)
    \/ \E o \in RequestInspectorOutcomes : InvokeRequestInspector(o)
    \/ PassInspector
    \/ \E o \in HandlerOutcomes : HandleAtNode(o)
    \/ Descend
    \/ \E o \in HandlerOutcomes : Fallback(o)
    \/ AwaitResponseRejects
    \/ \E o \in ResponseInspectorOutcomes : InvokeResponseInspector(o)
    \/ ReturnResponse
    \/ Finish

NextMounted == RegisterMounts \/ DispatchMounted
MountSpec == Init /\ [][NextMounted]_vars

\* ------------------------------------------------------ constructor options
\* Routers constructed with and without a context_metadata_constructor: a
\* request is received by a router that has a factory, with either outcome
\* of it, or by a router that has none.
OptionRequests == {[method |-> "GET", path |-> p] : p \in RequestPaths}

DispatchWithOptions ==
    \/ \E r \in OptionRequests, o \in FactoryOutcomes \cup {AbsentFactory} :
          Receive(r.method, r.path, o)
    \/ \E o \in RequestInspectorOutcomes : InvokeRequestInspector(o)
    \/ PassInspector
    \/ \E o \in HandlerOutcomes : HandleAtNode(o)
    \/ Descend
    \/ \E o \in HandlerOutcomes : Fallback(o)
    \/ AwaitResponseRejects
    \/ \E o \in ResponseInspectorOutcomes : InvokeResponseInspector(o)
    \/ ReturnResponse
    \/ Finish

NextWithOptions == Register \/ DispatchWithOptions
OptionsSpec == Init /\ [][NextWithOptions]_vars

\* ------------------------------------------------------ path variable names
\* Routes written with two variable names, `:x` and `:y`, and a literal.
MaxNameRegs == 3
NameRegPaths == SeqsUpTo({"a", ":x", ":y"}, 1, MaxDepth)
NameRequests ==
    {[method |-> "GET", path |-> p] : p \in SeqsUpTo({"a", "42"}, 1, MaxReqLen)}

RegisterNames ==
    /\ Len(regs) < MaxNameRegs
    /\ \E path \in NameRegPaths :
          \/ AddHandler("GET", path)
          \/ \E shape \in {<<TRUE, FALSE, "default">>, <<FALSE, TRUE, "default">>} :
                AddInspector("GET", path, shape)

DispatchNamed ==
    \/ \E r \in NameRequests : Receive(r.method, r.path, "returns")
    \/ \E o \in {"continue", "halt"} : InvokeRequestInspector(o)
    \/ PassInspector
    \/ \E o \in {"returns", "rejects"} : HandleAtNode(o)
    \/ Descend
    \/ Fallback("returns")
    \/ AwaitResponseRejects
    \/ InvokeResponseInspector("returns")
    \/ ReturnResponse
    \/ Finish

NextNamed == RegisterNames \/ DispatchNamed
NameSpec == Init /\ [][NextNamed]_vars

\* ---------------------------------------------------- segments after a splat
\* Routes of up to three segments, with and without segments after a `*`.
MaxTailRegs == 3
TailRegPaths ==
    {<<"a">>, <<"*">>, <<"a", "*">>, <<"*", "a">>, <<"a", "*", "a">>}
TailRequests ==
    {[method |-> "GET", path |-> p] : p \in {<<"a">>, <<"a", "a">>, <<"a", "42", "a">>}}

RegisterTails ==
    /\ Len(regs) < MaxTailRegs
    /\ \E path \in TailRegPaths :
          \/ AddHandler("GET", path)
          \/ \E shape \in {<<TRUE, TRUE, "default">>, <<FALSE, TRUE, "default">>} :
                AddInspector("GET", path, shape)

DispatchTails ==
    \/ \E r \in TailRequests : Receive(r.method, r.path, "returns")
    \/ \E o \in {"continue", "halt"} : InvokeRequestInspector(o)
    \/ PassInspector
    \/ \E o \in {"returns", "rejects"} : HandleAtNode(o)
    \/ Descend
    \/ Fallback("returns")
    \/ AwaitResponseRejects
    \/ InvokeResponseInspector("returns")
    \/ ReturnResponse
    \/ Finish

NextTails == RegisterTails \/ DispatchTails
TailSpec == Init /\ [][NextTails]_vars

\* ------------------------------------------------------ unsupported methods
\* Requests of methods with and without a trie, against handlers and
\* inspectors registered for every method that has one.
MaxAllRegs == 2
AllRegPaths == {<<>>, <<"">>, <<"a">>}
AllRequests ==
    {[method |-> m, path |-> p] :
        m \in {"GET", "HEAD", "PUT", "DELETE"}, p \in {<<"">>, <<"a">>, <<"a", "42">>}}

RegisterAll ==
    /\ Len(regs) < MaxAllRegs
    /\ \E path \in AllRegPaths :
          \/ \E m \in {"GET", "HEAD"} : AddHandler(m, path)
          \/ \E shape \in InspectorShapes : addAllInspector(path, shape)

DispatchAll ==
    \/ \E r \in AllRequests, o \in FactoryOutcomes : Receive(r.method, r.path, o)
    \/ \E o \in RequestInspectorOutcomes : InvokeRequestInspector(o)
    \/ PassInspector
    \/ \E o \in HandlerOutcomes : HandleAtNode(o)
    \/ Descend
    \/ \E o \in HandlerOutcomes : Fallback(o)
    \/ AwaitResponseRejects
    \/ \E o \in ResponseInspectorOutcomes : InvokeResponseInspector(o)
    \/ ReturnResponse
    \/ Finish

NextAll == RegisterAll \/ DispatchAll
AllSpec == Init /\ [][NextAll]_vars

\* ------------------------------------------------------- inspector outcomes
\* Request inspectors returning each of the four RequestInspectorResponse
\* values, or failing.
OutcomeRequests ==
    {[method |-> "GET", path |-> p] : p \in {<<"">>, <<"a">>, <<"a", "a">>, <<"42">>}}

DispatchOutcomes ==
    \/ \E r \in OutcomeRequests : Receive(r.method, r.path, "returns")
    \/ \E o \in RequestInspectorOutcomes \cup {"haltContinue"} : InvokeRequestInspector(o)
    \/ PassInspector
    \/ \E o \in HandlerOutcomes : HandleAtNode(o)
    \/ Descend
    \/ \E o \in HandlerOutcomes : Fallback(o)
    \/ AwaitResponseRejects
    \/ \E o \in ResponseInspectorOutcomes : InvokeResponseInspector(o)
    \/ ReturnResponse
    \/ Finish

NextOutcomes == Register \/ DispatchOutcomes
OutcomeSpec == Init /\ [][NextOutcomes]_vars

\* ------------------------------------------------------------- termination
\* Dispatch under fairness: every callback that is invoked terminates, by
\* returning, throwing or rejecting, and the event loop resumes an async
\* function whose awaited promise has settled. Whether another request
\* arrives is left open.
MaxLiveRegs == 2
LiveRegPaths == {<<"a">>, <<"a", "a">>, <<":x">>, <<"*">>}
LiveRequests ==
    {[method |-> m, path |-> p] :
        m \in {"GET", "PUT"}, p \in {<<"a">>, <<"a", "a">>, <<"a", "42", "a">>, <<"42">>}}

RegisterLive ==
    /\ Len(regs) < MaxLiveRegs
    /\ \E path \in LiveRegPaths :
          \/ AddHandler("GET", path)
          \/ \E shape \in {<<TRUE, TRUE, "default">>, <<FALSE, TRUE, "default">>} :
                AddInspector("GET", path, shape)

ReceiveLive ==
    \E r \in LiveRequests, o \in FactoryOutcomes : Receive(r.method, r.path, o)

Proceed ==
    \/ \E o \in RequestInspectorOutcomes : InvokeRequestInspector(o)
    \/ PassInspector
    \/ \E o \in HandlerOutcomes : HandleAtNode(o)
    \/ Descend
    \/ \E o \in HandlerOutcomes : Fallback(o)
    \/ AwaitResponseRejects
    \/ \E o \in ResponseInspectorOutcomes : InvokeResponseInspector(o)
    \/ ReturnResponse

NextLive == RegisterLive \/ ReceiveLive \/ Proceed \/ Finish
LiveSpec == Init /\ [][NextLive]_vars /\ WF_vars(Proceed)

\* ---------------------------------------------------------------- the server
\* Server (src/src/server.ts): the two callback lists, serve(), the onListen
\* loop, the abort by close() or a signal, and the loop that follows
\* server.finished and ends with Deno.exit(0). The k-th callback added,
\* to either list, is callback k.
MaxCallbacks == 4
CallbackOutcomes == {"returns", "throws", "rejects"}

Call(loop, id, ev) == [loop |-> loop, id |-> id, ev |-> ev]

addServerListenCallback ==
    /\ ~server.served
    /\ Len(server.listenCallbacks) + Len(server.finishedCallbacks) < MaxCallbacks
    /\ server' = [server EXCEPT !.listenCallbacks =
          Append(@, Len(server.listenCallbacks) + Len(server.finishedCallbacks) + 1)]
    /\ UNCHANGED routerVars

addServerFinishedCallback ==
    /\ ~server.served
    /\ Len(server.listenCallbacks) + Len(server.finishedCallbacks) < MaxCallbacks
    /\ server' = [server EXCEPT !.finishedCallbacks =
          Append(@, Len(server.listenCallbacks) + Len(server.finishedCallbacks) + 1)]
    /\ UNCHANGED routerVars

\* serve(hostname, port): Deno.serve is called with the abort signal.
serve ==
    /\ ~server.served
    /\ server' = [server EXCEPT !.served = TRUE]
    /\ UNCHANGED routerVars

\* Deno.serve calls onListen once the server listens: the loop starts.
onListen ==
    /\ server.served /\ ~server.exited
    /\ server.listening = "no"
    /\ server' = [server EXCEPT !.listening = "loop", !.listenIndex = 1]
    /\ UNCHANGED routerVars

\* The catch block outside the for loop: a fault ends the loop.
NextCallback_catchOutside(index, length, outcome) ==
    IF outcome = "returns" THEN index + 1 ELSE length + 1

\* try { await callback() } catch (e) { console.log(...) } inside the for
\* loop: whatever the outcome, the loop goes on with the next callback.
NextCallback(index, length, outcome) == index + 1

\* for (const callback of this.#server_listen_callbacks): callback() is
\* called and the loop waits at the await.
CallListenCallback ==
    /\ server.listening = "loop" /\ ~server.exited
    /\ ~server.listenAwaits
    /\ server.listenIndex <= Len(server.listenCallbacks)
    /\ server' = [server EXCEPT
          !.listenAwaits = TRUE,
          !.calls = Append(@, Call("listen", server.listenCallbacks[server.listenIndex],
                                   "called"))]
    /\ UNCHANGED routerVars

\* The callback returned, threw, or its promise settled.
ListenCallbackSettles(outcome) ==
    /\ server.listening = "loop" /\ ~server.exited
    /\ server.listenAwaits
    /\ server' = [server EXCEPT
          !.listenAwaits = FALSE,
          !.listenIndex = NextCallback(@, Len(server.listenCallbacks), outcome),
          !.calls = Append(@, Call("listen", server.listenCallbacks[server.listenIndex],
                                   outcome))]
    /\ UNCHANGED routerVars

onListenReturns ==
    /\ server.listening = "loop" /\ ~server.exited
    /\ ~server.listenAwaits
    /\ server.listenIndex > Len(server.listenCallbacks)
    /\ server' = [server EXCEPT !.listening = "done"]
    /\ UNCHANGED routerVars

\* close(reason), or a SIGINT, SIGTERM or SIGUSR1: the controller aborts,
\* once (it is set to undefined afterwards).
abort ==
    /\ server.served /\ ~server.aborted
    /\ server' = [server EXCEPT !.aborted = TRUE]
    /\ UNCHANGED routerVars

\* server.finished.then(async () => ...): the closing loop starts.
serverFinished ==
    /\ server.aborted
    /\ server.finishing = "no"
    /\ server' = [server EXCEPT !.finishing = "loop", !.finishedIndex = 1]
    /\ UNCHANGED routerVars

CallFinishedCallback ==
    /\ server.finishing = "loop"
    /\ ~server.finishedAwaits
    /\ server.finishedIndex <= Len(server.finishedCallbacks)
    /\ server' = [server EXCEPT
          !.finishedAwaits = TRUE,
          !.calls = Append(@, Call("finished",
                                   server.finishedCallbacks[server.finishedIndex],
                                   "called"))]
    /\ UNCHANGED routerVars

FinishedCallbackSettles(outcome) ==
    /\ server.finishing = "loop"
    /\ server.finishedAwaits
    /\ server' = [server EXCEPT
          !.finishedAwaits = FALSE,
          !.finishedIndex = NextCallback(@, Len(server.finishedCallbacks), outcome),
          !.calls = Append(@, Call("finished",
                                   server.finishedCallbacks[server.finishedIndex],
                                   outcome))]
    /\ UNCHANGED routerVars

\* After the loop: Deno.exit(0) ends the process, whatever else is pending.
exit ==
    /\ server.finishing = "loop"
    /\ ~server.finishedAwaits
    /\ server.finishedIndex > Len(server.finishedCallbacks)
    /\ server' = [server EXCEPT !.finishing = "done", !.exited = TRUE]
    /\ UNCHANGED routerVars

ServerSetup == addServerListenCallback \/ addServerFinishedCallback \/ serve
\* The steps the runtime takes by itself once callbacks terminate.
ServerProceeds ==
    \/ onListen
    \/ CallListenCallback
    \/ \E o \in CallbackOutcomes : ListenCallbackSettles(o)
    \/ onListenReturns
    \/ serverFinished
    \/ CallFinishedCallback
    \/ \E o \in CallbackOutcomes : FinishedCallbackSettles(o)
    \/ exit

NextServer == ServerSetup \/ ServerProceeds \/ abort
ServerSpec == Init /\ [][NextServer]_vars /\ WF_vars(ServerProceeds)

\* ------------------------------------------------- mounting a directory tree
\* mountFiles as the async function it is: a call runs until its first
\* await, a nested call for a subdirectory is made without await, and a call
\* suspended at `await this.#serveMemoizedFile(...)` is resumed by the event
\* loop, when no call is running. A target directory holds files, symlinks
\* and at most the subdirectory a.
File(name) == [kind |-> "file", name |-> name]
Directory(name) == [kind |-> "directory", name |-> name]
Symlink(name) == [kind |-> "symlink", name |-> name]
Trees ==
    {[root |-> <<Directory("a")>>, a |-> <<File("a")>>],
     [root |-> <<File("42"), Directory("a")>>, a |-> <<File("a"), File("42")>>],
     [root |-> <<Directory("a"), File("42")>>, a |-> <<File("a")>>],
     [root |-> <<File("42"), Symlink("a")>>, a |-> <<>>],
     [root |-> <<File("a"), File("42")>>, a |-> <<>>],
     [root |-> <<Directory("a"), Symlink("42")>>, a |-> <<File("42"), Symlink("a")>>],
     [root |-> <<File("42"), Directory("a")>>, a |-> <<>>],
     [root |-> <<>>, a |-> <<>>]}

\* The call on top of the call stack, its directory entries and the entry
\* its loop stands at.
Running == mounting.frames[mounting.stack[Len(mounting.stack)]]
Entries == mounting.tree[Running.dir]
Entry == Entries[Running.index]
AtEntry(kind) ==
    /\ mounting.stack # <<>>
    /\ Running.index <= Len(Entries)
    /\ Entry.kind = kind
\* The running call moves on to its next directory entry.
NextEntry ==
    [mounting EXCEPT !.frames[mounting.stack[Len(mounting.stack)]].index = @ + 1]
Pop(stack) == SubSeq(stack, 1, Len(stack) - 1)

\* The application calls router.mountFiles("/", targetDir, memoized).
CallMountFiles(tree, memoized) ==
    /\ pc = "idle"
    /\ ~mounting.started
    /\ mounting' = [started |-> TRUE, tree |-> tree, memoized |-> memoized,
                    frames |-> <<[mountDir |-> <<>>, dir |-> "root", index |-> 1,
                                  status |-> "running"]>>,
                    stack |-> <<1>>, returned |-> FALSE]
    /\ UNCHANGED <<routes, regs, dispatchVars, parked, server>>

\* if (memoized) this.get(mountDir + dirEntry.name, this.#serveFile(...))
MountFileDirectly ==
    /\ AtEntry("file")
    /\ mounting.memoized
    /\ GetFile(Running.mountDir \o <<Entry.name>>, TRUE)
    /\ mounting' = NextEntry
    /\ UNCHANGED <<dispatchVars, parked, server>>

\* else this.get(..., await this.#serveMemoizedFile(...)): the call is
\* suspended at the await and control goes back to its caller.
AwaitMemoizedFile ==
    /\ AtEntry("file")
    /\ ~mounting.memoized
    /\ mounting' = [mounting EXCEPT
          !.frames[mounting.stack[Len(mounting.stack)]].status = "awaiting",
          !.stack = Pop(@)]
    /\ UNCHANGED <<routes, regs, dispatchVars, parked, server>>

\* The event loop resumes a suspended call: this.get(...) registers the file
\* and the loop goes on.
ResumeMount ==
    /\ pc = "idle"
    /\ mounting.stack = <<>>
    /\ \E k \in 1..Len(mounting.frames) :
          LET f == mounting.frames[k] IN
          /\ f.status = "awaiting"
          /\ GetFile(f.mountDir \o <<mounting.tree[f.dir][f.index].name>>, FALSE)
          /\ mounting' = [mounting EXCEPT
                !.frames[k].status = "running",
                !.frames[k].index = @ + 1,
                !.stack = <<k>>]
    /\ UNCHANGED <<dispatchVars, parked, server>>

\* else if (dirEntry.isDirectory) this.mountFiles(...): a nested call, not
\* awaited; it runs at once, on top of the call that made it.
MountSubdirectory ==
    /\ AtEntry("directory")
    /\ mounting' = [NextEntry EXCEPT
          !.frames = Append(@, [mountDir |-> Running.mountDir \o <<Entry.name>>,
                                dir |-> Entry.name, index |-> 1,
                                status |-> "running"]),
          !.stack = Append(@, Len(mounting.frames) + 1)]
    /\ UNCHANGED <<routes, regs, dispatchVars, parked, server>>

\* else if (dirEntry.isSymlink) console.log(...)
SkipSymlink ==
    /\ AtEntry("symlink")
    /\ mounting' = NextEntry
    /\ UNCHANGED <<routes, regs, dispatchVars, parked, server>>

\* The for loop is over: the call's promise resolves.
MountFilesResolves ==
    /\ mounting.stack # <<>>
    /\ Running.index > Len(Entries)
    /\ mounting' = [mounting EXCEPT
          !.frames[mounting.stack[Len(mounting.stack)]].status = "resolved",
          !.stack = Pop(@)]
    /\ UNCHANGED <<routes, regs, dispatchVars, parked, server>>

\* The application's `await router.mountFiles(...)` returns: the promise of
\* its call has resolved and no call is running.
AwaitReturns ==
    /\ mounting.started /\ ~mounting.returned
    /\ mounting.stack = <<>>
    /\ mounting.frames[1].status = "resolved"
    /\ mounting' = [mounting EXCEPT !.returned = TRUE]
    /\ UNCHANGED <<routes, regs, dispatchVars, parked, server>>

NextMountTree ==
    \/ \E tree \in Trees, memoized \in BOOLEAN : CallMountFiles(tree, memoized)
    \/ MountFileDirectly
    \/ AwaitMemoizedFile
    \/ ResumeMount
    \/ MountSubdirectory
    \/ SkipSymlink
    \/ MountFilesResolves
    \/ AwaitReturns
MountTreeSpec == Init /\ [][NextMountTree]_vars

\* ------------------------------------------------------------- vocabulary
\* requestHandler's promise has settled.
Done == pc = "done"

IsLiteralSegment(s) == s # "*" /\ ~IsPathVariableSegment(s)
IsLiteralPath(path) == \A i \in 1..Len(path) : IsLiteralSegment(path[i])
\* A path of literal and `:name` segments with at least one `:name`.
IsVariablePath(path) ==
    /\ \A i \in 1..Len(path) : path[i] # "*"
    /\ \E i \in 1..Len(path) : IsPathVariableSegment(path[i])
\* A path that ends in `*` and has no other `*`.
IsSplatPath(path) ==
    /\ Len(path) > 0
    /\ path[Len(path)] = "*"
    /\ \A i \in 1..(Len(path) - 1) : path[i] # "*"
Prefix(path) == SubSeq(path, 1, Len(path) - 1)

\* Request parts q agree with route r: as many parts, and equal ones
\* wherever r has a literal segment.
Matches(q, r) ==
    /\ Len(q) = Len(r)
    /\ \A i \in 1..Len(r) : IsLiteralSegment(r[i]) => q[i] = r[i]
IsPrefixOf(p, q) == Len(p) <= Len(q) /\ SubSeq(q, 1, Len(p)) = p

\* Registration k put the first handler on its method and path.
IsFirstHandler(k) ==
    /\ regs[k].kind = "handler"
    /\ \A j \in 1..(k - 1) :
          ~(regs[j].kind = "handler" /\ regs[j].method = regs[k].method
            /\ regs[j].path = regs[k].path)

\* The ids of what was invoked for the current request, in order.
Invoked(ev) ==
    LET es == SelectSeq(log, LAMBDA e : e.ev = ev)
    IN [i \in 1..Len(es) |-> es[i].id]
InvokedSet(ev) == {log[i].id : i \in {j \in 1..Len(log) : log[j].ev = ev}}

\* The metadata factory returned and every request inspector invoked so far,
\* except inspector k, let the request continue.
UndisturbedBut(k) ==
    \A i \in 1..Len(log) :
        /\ log[i].ev = "factory" => log[i].out = "returns"
        /\ (log[i].ev = "requestInspector" /\ log[i].id # k) => log[i].out = "continue"
Undisturbed == UndisturbedBut(0)
\* Some callback of the application failed.
SomeCallbackFailed(evs) ==
    \E i \in 1..Len(log) : log[i].ev \in evs /\ log[i].out \in {"throws", "rejects"}

\* ------------------------------------------------------------------ claims
\* C1: a request whose method and path are exactly those of a registered
\* literal route invokes the first handler registered there, once, and no
\* other route handler, whatever else is registered (no inspector stopping
\* the request).
C1_LiteralRouteReachesItsHandler ==
    \A k \in 1..Len(regs) :
        ( /\ Done
          /\ Undisturbed
          /\ IsFirstHandler(k)
          /\ IsLiteralPath(regs[k].path)
          /\ request.method = regs[k].method
          /\ request.path = regs[k].path )
        => Invoked("handler") = <<regs[k].id>>

\* Paths p and r part cleanly: one is the other continued, or the first
\* segment in which they differ is a literal in both.
PartCleanly(p, r) ==
    \/ IsPrefixOf(p, r)
    \/ IsPrefixOf(r, p)
    \/ \E i \in 1..Len(p) :
          /\ i <= Len(r)
          /\ SubSeq(p, 1, i - 1) = SubSeq(r, 1, i - 1)
          /\ p[i] # r[i]
          /\ IsLiteralSegment(p[i]) /\ IsLiteralSegment(r[i])
\* Every other path registered on the method of registration k parts cleanly
\* from its path.
PartsCleanly(k) ==
    \A j \in 1..Len(regs) :
        (j # k /\ regs[j].method = regs[k].method)
            => PartCleanly(regs[j].path, regs[k].path)
\* No `:name` is written twice in the path.
NamesDistinct(path) ==
    \A i, j \in 1..Len(path) :
        (i # j /\ IsPathVariableSegment(path[i])) => path[i] # path[j]

\* The request matches the path of registration k, the first handler there.
RequestMatchesVariableRoute(k) ==
    /\ Done
    /\ Undisturbed
    /\ IsFirstHandler(k)
    /\ IsVariablePath(regs[k].path)
    /\ request.method = regs[k].method
    /\ Matches(request.path, regs[k].path)
\* Handler k ran alone and every `:name` of its path maps to the request's
\* part at that position.
ReachedWithCaptures(k) ==
    /\ Invoked("handler") = <<regs[k].id>>
    /\ \A i \in 1..Len(regs[k].path) :
          IsPathVariableSegment(regs[k].path[i])
            => <<PathVariableOf[regs[k].path[i]], request.path[i]>>
                    \in context.pathVariables

\* C2 as written: after any registrations, a request that agrees with a
\* `:name` route on its length and literal segments reaches that route's
\* handler with every name of the route mapped to the request's segment.
C2_VariableRouteCaptures ==
    \A k \in 1..Len(regs) :
        RequestMatchesVariableRoute(k) => ReachedWithCaptures(k)

\* C2 as amended: the same, for a route that writes each name once and from
\* which every other registered path of the method parts cleanly.
C2_VariableRouteCapturesWhenApart ==
    \A k \in 1..Len(regs) :
        ( /\ RequestMatchesVariableRoute(k)
          /\ NamesDistinct(regs[k].path)
          /\ PartsCleanly(k) )
        => ReachedWithCaptures(k)

C2_Witness ==
    \E k \in 1..Len(regs) :
        /\ RequestMatchesVariableRoute(k)
        /\ NamesDistinct(regs[k].path)
        /\ PartsCleanly(k)
        /\ Len(regs) = MaxRegs
        /\ \E j \in 1..Len(regs) : regs[j].kind = "handler" /\ regs[j].path # regs[k].path
        /\ ReachedWithCaptures(k)
        /\ result.kind = "resolved"

\* The request lies under the splat route of registration k, the first
\* handler there: its path is the route's prefix and at least one more part.
RequestUnderSplatRoute(k) ==
    /\ Done
    /\ Undisturbed
    /\ IsFirstHandler(k)
    /\ IsSplatPath(regs[k].path)
    /\ request.method = regs[k].method
    /\ Len(request.path) >= Len(regs[k].path)
    /\ Matches(SubSeq(request.path, 1, Len(regs[k].path) - 1), Prefix(regs[k].path))
\* A handler is registered on a literal or `:name` route that matches the
\* whole request path, or on a splat route nested deeper than that of k.
MoreSpecificHandler(k) ==
    \E j \in 1..Len(regs) :
        /\ regs[j].kind = "handler"
        /\ regs[j].method = request.method
        /\ \/ (\A i \in 1..Len(regs[j].path) : regs[j].path[i] # "*")
                 /\ Matches(request.path, regs[j].path)
           \/ /\ IsSplatPath(regs[j].path)
              /\ Len(regs[j].path) > Len(regs[k].path)
              /\ Len(request.path) >= Len(regs[j].path)
              /\ Matches(SubSeq(request.path, 1, Len(regs[j].path) - 1),
                         Prefix(regs[j].path))
\* Nothing was registered on the path of registration k before it.
IsFirstOnPath(k) ==
    \A j \in 1..(k - 1) :
        ~(regs[j].method = regs[k].method /\ regs[j].path = regs[k].path)

\* C3 as written: a request under the prefix of a splat route, with no
\* handler on a more specific route matching the whole path, is answered by
\* the splat's handler whatever other routes share the prefix.
C3_SplatAnswersUnderPrefix ==
    \A k \in 1..Len(regs) :
        (RequestUnderSplatRoute(k) /\ ~MoreSpecificHandler(k))
            => Invoked("handler") = <<regs[k].id>>

\* C3 as amended: the same for a splat route that was first registered with
\* this handler and from which every other registered path of the method
\* parts cleanly.
C3_SplatAnswersUnderPrefixWhenApart ==
    \A k \in 1..Len(regs) :
        ( /\ RequestUnderSplatRoute(k)
          /\ IsFirstOnPath(k)
          /\ PartsCleanly(k) )
        => Invoked("handler") = <<regs[k].id>>

\* A request two parts below the splat's prefix, answered by the splat's
\* handler through the fallback after the loop, with another route around.
C3_Witness ==
    \E k \in 1..Len(regs) :
        /\ RequestUnderSplatRoute(k)
        /\ IsFirstOnPath(k)
        /\ PartsCleanly(k)
        /\ Len(regs) = MaxRegs
        /\ \E j \in 1..Len(regs) : regs[j].path # regs[k].path
        /\ Len(request.path) > Len(regs[k].path)
        /\ nextRouteNode = Undefined
        /\ Invoked("handler") = <<regs[k].id>>
        /\ result.kind = "resolved"

\* C4: with handlers on a shallow splat P/* and on a nested splat P/L/*, in
\* either registration order, a request under P/L/ is answered by the nested
\* splat's handler.
C4_NestedSplatWins ==
    \A j, k \in 1..Len(regs) :
        ( /\ Done
          /\ Undisturbed
          /\ IsFirstHandler(j) /\ IsFirstHandler(k)
          /\ regs[j].method = request.method /\ regs[k].method = request.method
          /\ IsSplatPath(regs[j].path) /\ IsSplatPath(regs[k].path)
          /\ IsLiteralPath(Prefix(regs[k].path))
          /\ Len(regs[j].path) < Len(regs[k].path)
          /\ IsPrefixOf(Prefix(regs[j].path), Prefix(regs[k].path))
          /\ IsPrefixOf(Prefix(regs[k].path), request.path)
          /\ Len(request.path) > Len(Prefix(regs[k].path)) )
        => Invoked("handler") = <<regs[k].id>>

\* C5: the request inspector of a default-scope inspector registered at a
\* literal path P (the root included) is invoked for every request of that
\* method whose path is P or extends P, provided no earlier inspector halted
\* or failed.
C5_DefaultScopeInspectorFires ==
    \A k \in 1..Len(regs) :
        ( /\ Done
          /\ UndisturbedBut(regs[k].id)
          /\ regs[k].kind = "inspector"
          /\ regs[k].inspector.requestInspector
          /\ regs[k].inspector.observeChildPaths
          /\ IsLiteralPath(regs[k].path)
          /\ request.method = regs[k].method
          /\ IsPrefixOf(regs[k].path, request.path) )
        => regs[k].id \in InvokedSet("requestInspector")

\* C6: an inspector registered at a literal path P with observeChildPaths =
\* false is invoked for a request whose path is exactly P, and neither of
\* its inspectors is invoked for a request whose path extends P.
C6_ExactScopeInspector ==
    \A k \in 1..Len(regs) :
        ( /\ Done
          /\ UndisturbedBut(regs[k].id)
          /\ regs[k].kind = "inspector"
          /\ regs[k].inspector.requestInspector
          /\ ~regs[k].inspector.observeChildPaths
          /\ IsLiteralPath(regs[k].path)
          /\ request.method = regs[k].method )
        => /\ request.path = regs[k].path
                => regs[k].id \in InvokedSet("requestInspector")
           /\ (IsPrefixOf(regs[k].path, request.path) /\ request.path # regs[k].path)
                => regs[k].id \notin InvokedSet("requestInspector")
                                     \cup InvokedSet("responseInspector")

\* C6, second half alone: out of scope below its path.
ExactScopeInspectorSilentBelow ==
    \A k \in 1..Len(regs) :
        ( /\ regs[k].kind = "inspector"
          /\ ~regs[k].inspector.observeChildPaths
          /\ request.method = regs[k].method
          /\ Len(request.path) > Len(regs[k].path) )
        => regs[k].id \notin InvokedSet("requestInspector")
                             \cup InvokedSet("responseInspector")

\* The ids on the queue of collected response inspectors.
Collected == {responseInspectors[i] : i \in 1..Len(responseInspectors)}
\* The inspectors that have a response inspector and whose request inspector
\* was invoked before log entry n and let the request continue.
ContinuedBefore(n) ==
    {log[i].id : i \in {j \in 1..(n - 1) :
        /\ log[j].ev = "requestInspector"
        /\ log[j].out = "continue"
        /\ regs[log[j].id].inspector.responseInspector}}
\* Every response inspector invoked so far was given response r.
AllInspected(r) ==
    \A i \in 1..Len(log) : log[i].ev = "responseInspector" => log[i].resp = r

\* Log entry i is a request inspector halting with its response, and the
\* dispatch then did all the claim says.
HaltShortCircuits(i) ==
    LET R == InspectorResponse(log[i].id) IN
    /\ Invoked("handler") = <<>>
    /\ Invoked("notFound") = <<>>
    /\ Invoked("serverError") = <<>>
    /\ Invoked("responseInspector") = responseInspectors
    /\ ContinuedBefore(i) \subseteq Collected
    /\ log[i].id \notin Collected
    /\ AllInspected(R)
    /\ result = Resolved(R)
Halted(i) == log[i].ev = "requestInspector" /\ log[i].out = "halt"

InspectorsSawFinalResponse ==
    /\ result.kind = "resolved"
    /\ Invoked("responseInspector") = responseInspectors
    /\ ContinuedBefore(Len(log) + 1) \subseteq Collected
    /\ AllInspected(result.response)

\* C8 as written: in every dispatch in which a response inspector was
\* collected, it is invoked exactly once with the response requestHandler
\* returns, wherever that response came from.
C8_ResponseInspectorsSeeFinalResponse ==
    (Done /\ Len(responseInspectors) > 0) => InspectorsSawFinalResponse

\* C8 as amended: the same in every dispatch in which no callback fails.
C8_ResponseInspectorsSeeFinalResponseUnlessFault ==
    ( /\ Done
      /\ Len(responseInspectors) > 0
      /\ ~SomeCallbackFailed({"factory", "requestInspector", "handler",
                              "responseInspector"}) )
    => InspectorsSawFinalResponse

\* A response inspector registered at the root saw the response of a handler
\* two segments down.
C8_Witness ==
    /\ Done
    /\ \E k \in 1..Len(regs) :
          /\ regs[k].kind = "inspector"
          /\ regs[k].path = <<>>
          /\ responseInspectors = <<regs[k].id>>
    /\ Len(request.path) = 2
    /\ Len(context.pathParts) = 0
    /\ result.kind = "resolved"
    /\ result.response.by = "handler"
    /\ InspectorsSawFinalResponse

\* C9: when a route handler, request inspector or response inspector throws
\* or returns a promise that rejects, requestHandler's promise resolves to
\* the server-error handler's output; it never rejects.
C9_FaultsBecomeServerError ==
    (Done /\ SomeCallbackFailed({"handler", "requestInspector", "responseInspector"}))
        => result = Resolved(ServerErrorResponse)

\* C10: the metadata factory is invoked exactly once per request, before the
\* walk, and a failure of it resolves to the server-error handler's output.
C10_FactoryOnceAndFaultHandled ==
    Done => /\ Len(log) > 0 /\ log[1].ev = "factory"
            /\ Invoked("factory") = <<0>>
            /\ SomeCallbackFailed({"factory"}) => result = Resolved(ServerErrorResponse)

\* A request inspector threw or rejected, or a handler threw, and the catch
\* block answered with the server-error handler's output.
FaultPathTaken ==
    /\ Done
    /\ SomeCallbackFailed({"requestInspector"})
          \/ \E i \in 1..Len(log) : log[i].ev = "handler" /\ log[i].out = "throws"
    /\ result = Resolved(ServerErrorResponse)

\* C11: when dispatch returns the server-error handler's output because a
\* callback raised a fault, none of the response inspectors queued so far is
\* invoked on that output (or at all): the fault path bypasses the queue.
C11_FaultPathBypassesQueue ==
    FaultPathTaken => InvokedSet("responseInspector") = {}

\* A fault path taken with a response inspector already in the queue.
C11_Witness ==
    /\ FaultPathTaken
    /\ responseInspectors # <<>>
    /\ InvokedSet("responseInspector") = {}

\* Request parts q are those of handler route r: r without `*` agrees with q
\* part by part; r with a `*` agrees with q up to the `*`, which stands for
\* one or more further parts.
Covers(q, r) ==
    LET stars == {i \in 1..Len(r) : r[i] = "*"}
        s == CHOOSE i \in stars : \A j \in stars : i <= j
    IN IF stars = {} THEN Matches(q, r)
       ELSE /\ Len(q) >= s
            /\ Matches(SubSeq(q, 1, s - 1), SubSeq(r, 1, s - 1))

\* No handler registered for the request's method is on a route, or on a
\* splat enclosing the path, that the request's path matches.
Unmatched ==
    \A k \in 1..Len(regs) :
        (regs[k].kind = "handler" /\ regs[k].method = request.method)
            => ~Covers(request.path, regs[k].path)

\* C12: a request whose path matches no registered route and has no
\* enclosing splat with a handler resolves to the not-found handler's
\* response; no route handler and no server-error handler is invoked (no
\* inspector halting or failing).
C12_UnmatchedIsNotFound ==
    ( /\ Done
      /\ Unmatched
      /\ Undisturbed
      /\ ~SomeCallbackFailed({"responseInspector"}) )
        => /\ result = Resolved(NotFoundResponse)
           /\ InvokedSet("handler") = {}
           /\ InvokedSet("serverError") = {}

\* Every handler and inspector invoked for the request was registered under
\* the request's method, and a trie nothing was registered on is a bare root.
MethodTriesIndependent ==
    /\ \A i \in 1..Len(log) :
          log[i].ev \in {"handler", "requestInspector", "responseInspector"}
              => regs[log[i].id].method = request.method
    /\ \A m \in Methods :
          (\A k \in 1..Len(regs) : regs[k].method # m) => routes[m] = <<NewRouteNode>>

\* Some handler is registered under another method on a route the request's
\* path matches, and none under the request's own method.
RegisteredOnlyUnderAnotherMethod ==
    /\ Unmatched
    /\ \E k \in 1..Len(regs) :
          /\ regs[k].kind = "handler"
          /\ regs[k].method # request.method
          /\ Covers(request.path, regs[k].path)

\* C13: the tries of GET, HEAD and POST are independent: what is invoked for
\* a request was registered under the request's method, and a request to a
\* path registered only under a different method resolves to the not-found
\* response with no route handler invoked (no inspector halting or failing).
C13_MethodsIndependent ==
    /\ MethodTriesIndependent
    /\ ( /\ Done
         /\ RegisteredOnlyUnderAnotherMethod
         /\ Undisturbed
         /\ ~SomeCallbackFailed({"responseInspector"}) )
          => /\ result = Resolved(NotFoundResponse)
             /\ InvokedSet("handler") = {}

\* A path of literal and `:name` segments, or one ending in its only `*`.
IsRoutePath(path) ==
    \/ \A i \in 1..Len(path) : path[i] # "*"
    \/ IsSplatPath(path)

\* Registrations j and k are handlers H1 then H2 on the same method and the
\* same path, j being the first registration there.
RegisteredTwice(j, k) ==
    /\ j < k
    /\ IsFirstHandler(j) /\ IsFirstOnPath(j)
    /\ regs[k].kind = "handler"
    /\ regs[k].method = regs[j].method
    /\ regs[k].path = regs[j].path
    /\ IsRoutePath(regs[j].path)

\* A handler installed on a node stays: no step replaces or removes it.
HandlerNeverReplaced ==
    [][\A m \in Methods : \A n \in 1..Len(routes[m]) :
          routes[m][n].handler # Undefined
              => /\ n <= Len(routes'[m])
                 /\ routes'[m][n].handler = routes[m][n].handler]_vars

\* C14: after handlers H1 then H2 are registered for the same method and the
\* same literal, `:name` or `*` path, H2 is never invoked and is on no node
\* unless a second `*` node was made for it; and, every other registered
\* path parting cleanly from that path, H1 is on a node and a request to the
\* path invokes H1 alone (no inspector halting or failing).
C14_FirstHandlerKept ==
    \A j, k \in 1..Len(regs) :
        RegisteredTwice(j, k) =>
            /\ regs[k].id \notin InvokedSet("handler")
            /\ \A n \in 1..Len(routes[regs[j].method]) :
                  routes[regs[j].method][n].handler = regs[k].id
                      => IsSplatPath(regs[k].path)
            /\ PartsCleanly(j) =>
                  \E n \in 1..Len(routes[regs[j].method]) :
                      routes[regs[j].method][n].handler = regs[j].id
            /\ ( /\ Done
                 /\ Undisturbed
                 /\ request.method = regs[j].method
                 /\ Covers(request.path, regs[j].path)
                 /\ PartsCleanly(j) )
                  => Invoked("handler") = <<regs[j].id>>


\* A request under a `*` path registered twice, answered by the first
\* handler through the fallback after the loop.
C14_Witness ==
    \E j, k \in 1..Len(regs) :
        /\ RegisteredTwice(j, k)
        /\ IsSplatPath(regs[j].path)
        /\ Done
        /\ request.method = regs[j].method
        /\ Covers(request.path, regs[j].path)
        /\ Len(request.path) > Len(regs[j].path)
        /\ Invoked("handler") = <<regs[j].id>>
        /\ result = Resolved(HandlerResponse(regs[j].id, "returns"))

\* Registration h is the first handler and registration i a default-scope
\* inspector with a request inspector, on the same method and route path.
HandlerAndInspectorOn(h, i) ==
    /\ IsFirstHandler(h)
    /\ regs[i].kind = "inspector"
    /\ regs[i].inspector.requestInspector
    /\ regs[i].inspector.observeChildPaths
    /\ regs[i].method = regs[h].method
    /\ regs[i].path = regs[h].path
    /\ IsRoutePath(regs[h].path)

\* Request inspector i was invoked before handler h was.
InvokedBefore(i, h) ==
    \E a, b \in 1..Len(log) :
        /\ a < b
        /\ log[a].ev = "requestInspector" /\ log[a].id = i
        /\ log[b].ev = "handler" /\ log[b].id = h

\* C15: with a handler and a default-scope inspector registered on the same
\* literal, `:name` or `*` path of a method, in either order, a request
\* answered by that handler has the inspector's request inspector invoked
\* before the handler, and the handler stays reachable: a request to the path
\* invokes it (no inspector halting or failing, the other registered paths
\* parting cleanly from it).
C15_InspectorBeforeHandler ==
    \A h, i \in 1..Len(regs) :
        HandlerAndInspectorOn(h, i) =>
            /\ (Done /\ regs[h].id \in InvokedSet("handler"))
                  => InvokedBefore(regs[i].id, regs[h].id)
            /\ ( /\ Done
                 /\ Undisturbed
                 /\ request.method = regs[h].method
                 /\ Covers(request.path, regs[h].path)
                 /\ PartsCleanly(h) )
                  => Invoked("handler") = <<regs[h].id>>

\* C15 for the paths without `*`.
InspectorBeforeHandlerOffSplat ==
    \A h, i \in 1..Len(regs) :
        (HandlerAndInspectorOn(h, i) /\ ~IsSplatPath(regs[h].path)) =>
            /\ (Done /\ regs[h].id \in InvokedSet("handler"))
                  => InvokedBefore(regs[i].id, regs[h].id)
            /\ ( /\ Done
                 /\ Undisturbed
                 /\ request.method = regs[h].method
                 /\ Covers(request.path, regs[h].path)
                 /\ PartsCleanly(h) )
                  => Invoked("handler") = <<regs[h].id>>

\* The node of trie t that holds inspector id, and how far below the root a
\* node is.
InspectorNode(t, id) ==
    CHOOSE n \in 1..Len(t) : \E i \in 1..Len(t[n].inspectors) : t[n].inspectors[i].id = id
RECURSIVE Depth(_, _)
Depth(t, n) ==
    IF n = Root THEN 0
    ELSE 1 + Depth(t, CHOOSE p \in 1..Len(t) :
                        \E c \in 1..Len(t[p].childNodes) : t[p].childNodes[c] = n)

\* Inspector i comes before inspector j: its node is nearer the root, or it
\* is the same node and i was registered first.
ComesBefore(i, j) ==
    LET ni == InspectorNode(Trie, i)
        nj == InspectorNode(Trie, j)
    IN \/ Depth(Trie, ni) < Depth(Trie, nj)
       \/ ni = nj /\ i < j

\* C16: the request inspectors of a request are invoked root to leaf and in
\* registration order within a node; the response inspectors are invoked in
\* the order they were collected, which is the same order, one after the
\* other (a failing one is the last callback invoked), all of them after
\* every other callback and on the response that was produced.
C16_InspectorOrder ==
    /\ \A a, b \in 1..Len(log) :
          (a < b /\ log[a].ev = "requestInspector" /\ log[b].ev = "requestInspector")
              => ComesBefore(log[a].id, log[b].id)
    /\ \A a, b \in 1..Len(responseInspectors) :
          a < b => ComesBefore(responseInspectors[a], responseInspectors[b])
    /\ IsPrefixOf(Invoked("responseInspector"), responseInspectors)
    /\ \A a \in 1..Len(log) :
          log[a].ev = "responseInspector" =>
              /\ \A b \in 1..Len(log) :
                    (b > a) => /\ log[b].ev = "responseInspector"
                               /\ log[a].out = "returns"
              /\ log[a].resp = response
              /\ log[a].resp # NoResponse
              /\ log[a].resp.ok

\* Two request inspectors and then two response inspectors were invoked, of
\* two nodes or of one.
C16_Witness ==
    /\ Done
    /\ Len(Invoked("requestInspector")) = 2
    /\ Len(Invoked("responseInspector")) = 2
    /\ Invoked("responseInspector") = Invoked("requestInspector")
    /\ result.kind = "resolved"

\* C17: for every request at most one route handler is invoked, and at most
\* once, on every path through dispatch (exact match, splat fallback, halt,
\* malformed outcome, fault).
C17_AtMostOneHandler ==
    Len(Invoked("handler")) <= 1

\* The splat's handler answered through the fallback after the loop, on a
\* router that has a second handler.
C17_Witness ==
    /\ Done
    /\ nextRouteNode = Undefined
    /\ closestWildcard # Undefined
    /\ Len(Invoked("handler")) = 1
    /\ \E j, k \in 1..Len(regs) :
          j # k /\ regs[j].kind = "handler" /\ regs[k].kind = "handler"
    /\ result.kind = "resolved"

\* Entry a of the log is a request inspector storing a value in context.meta
\* and no inspector stores one between it and entry b.
LastWriteBefore(a, b) ==
    /\ a < b
    /\ log[a].ev = "metaWrite"
    /\ \A c \in (a + 1)..(b - 1) : log[c].ev # "metaWrite"

\* C18: a value written to context.meta by a request inspector is the value
\* every later inspector, and the handler, of the same request is given,
\* until another inspector writes: the handler sees the inspector's value,
\* not the factory's.
C18_MetaIsAChannel ==
    \A a, b \in 1..Len(log) :
        ( /\ LastWriteBefore(a, b)
          /\ log[b].ev \in {"requestInspector", "handler", "responseInspector",
                            "notFound", "serverError"} )
            => /\ log[b].meta = MetaWrittenBy(log[a].id)
               /\ log[b].meta # InitialMeta

\* An inspector stored a value that the handler and then the inspector's
\* response inspector were given.
C18_Witness ==
    /\ Done
    /\ \E a, b, c \in 1..Len(log) :
          /\ LastWriteBefore(a, b) /\ b < c
          /\ log[b].ev = "handler"
          /\ log[c].ev = "responseInspector"
          /\ log[b].meta = MetaWrittenBy(log[a].id)
          /\ log[c].meta = MetaWrittenBy(log[a].id)
    /\ result.kind = "resolved"

\* ---- a request dispatched alone, as a function of the trie, the request and
\* what its callbacks did: the walk of requestHandler replayed on the
\* outcomes outs, giving how the call ends. Diverged: the callbacks in outs
\* are not those a dispatch of the request alone invokes.
Diverged ==
    [result |-> NoResult, queue |-> <<>>, pathVariables |-> {}, pathParts |-> <<>>]
AloneEnd(res, queue, pv, parts, outs) ==
    IF outs # <<>> THEN Diverged
    ELSE [result |-> res, queue |-> queue, pathVariables |-> pv, pathParts |-> parts]
NextIs(outs, ev, id) ==
    outs # <<>> /\ Head(outs).ev = ev /\ Head(outs).id = id

RECURSIVE AloneRespond(_, _, _, _, _, _)
AloneRespond(r, queue, j, pv, parts, outs) ==
    IF ~r.ok THEN AloneEnd(Rejected, queue, pv, parts, outs)
    ELSE IF MoreResponseInspectors(queue, j) THEN
        IF ~NextIs(outs, "responseInspector", queue[j]) THEN Diverged
        ELSE IF Head(outs).out = "returns"
             THEN AloneRespond(r, queue, j + 1, pv, parts, Tail(outs))
             ELSE AloneEnd(Rejected, queue, pv, parts, Tail(outs))
    ELSE AloneEnd(Resolved(r), queue, pv, parts, outs)

AloneHandler(id, queue, pv, parts, outs) ==
    IF ~NextIs(outs, "handler", id) THEN Diverged
    ELSE IF Head(outs).out = "throws"
         THEN AloneEnd(Resolved(ServerErrorResponse), queue, pv, parts, Tail(outs))
         ELSE AloneRespond(HandlerResponse(id, Head(outs).out), queue, 1, pv, parts,
                           Tail(outs))

RECURSIVE AloneWalk(_, _, _, _, _, _, _, _)
AloneWalk(t, n, parts, i, queue, closest, pv, outs) ==
    IF n = Undefined THEN
        IF closest # Undefined /\ t[closest].handler # Undefined
        THEN AloneHandler(t[closest].handler, queue, pv, parts, outs)
        ELSE AloneRespond(NotFoundResponse, queue, 1, pv, parts, outs)
    ELSE IF i <= Len(t[n].inspectors) THEN
        LET inspector == t[n].inspectors[i]
            collected == Collect(queue, inspector, parts)
        IN IF ~(inspector.requestInspector /\ InScope(inspector, parts))
           THEN AloneWalk(t, n, parts, i + 1, collected, closest, pv, outs)
           ELSE IF ~NextIs(outs, "requestInspector", inspector.id) THEN Diverged
           ELSE CASE Head(outs).out = "continue" ->
                       AloneWalk(t, n, parts, i + 1, collected, closest, pv, Tail(outs))
                  [] Head(outs).out = "halt" ->
                       AloneRespond(InspectorResponse(inspector.id), queue, 1, pv,
                                    parts, Tail(outs))
                  [] Head(outs).out = "malformed" ->
                       AloneRespond(ServerErrorResponse, queue, 1, pv, parts, Tail(outs))
                  [] OTHER ->
                       AloneEnd(Resolved(ServerErrorResponse), queue, pv, parts,
                                Tail(outs))
    ELSE IF Len(parts) = 0 THEN
        IF t[n].handler # Undefined
        THEN AloneHandler(t[n].handler, queue, pv, parts, outs)
        ELSE AloneRespond(NotFoundResponse, queue, 1, pv, parts, outs)
    ELSE
        LET pathSegment == Head(parts)
            split == WildcardSplitChild(t, n)
            next == NextChild(t, n, pathSegment)
            captured ==
                IF next # Undefined /\ t[next].isWildcard /\ t[next].pathVariable # "*"
                THEN addPathVariable([pathVariables |-> pv], t[next].pathVariable,
                                     pathSegment).pathVariables
                ELSE pv
        IN AloneWalk(t, next, Tail(parts), 1, queue,
                     IF split # Undefined /\ t[split].handler # Undefined
                     THEN split ELSE closest,
                     captured, outs)

\* How the call with locals T ends when it is dispatched alone with the
\* callback outcomes of its log.
Alone(T) ==
    LET outs == SelectSeq(T.log, LAMBDA e :
                    e.ev \in {"requestInspector", "handler", "responseInspector"})
    IN IF T.log[1].out = "throws" THEN AloneEnd(Rejected, <<>>, {}, <<>>, outs)
       ELSE IF T.request.method \notin Methods
            THEN AloneEnd(Resolved(NotFoundResponse), <<>>, {}, <<>>, outs)
       ELSE AloneWalk(routes[T.request.method], Root, T.request.path, 1, <<>>,
                      Undefined, {}, outs)

\* The meta a call's own inspectors left in its Context.
OwnMeta(T) ==
    LET writes == SelectSeq(T.log, LAMBDA e : e.ev = "metaWrite")
    IN IF writes = <<>> THEN InitialMeta ELSE MetaWrittenBy(writes[Len(writes)].id)

\* The call with locals T ended as it ends alone: the same response, the
\* same queue, the same captures and remaining parts, its own meta.
EndedAsAlone(T) ==
    /\ Alone(T) = [result |-> T.result, queue |-> T.responseInspectors,
                   pathVariables |-> T.context.pathVariables,
                   pathParts |-> T.context.pathParts]
    /\ T.context # NoContext =>
          /\ T.context.url = T.request.path
          /\ T.context.meta = OwnMeta(T)

\* C19: two requests dispatched concurrently and interleaved at any step
\* each end with the response, the response-inspector queue, the path
\* variables and the remaining path parts they end with when dispatched
\* alone: no call reads or changes the Context or the locals of the other.
C19_RequestsIsolated ==
    /\ pc = "done" => EndedAsAlone(Locals)
    /\ parked.pc = "done" => EndedAsAlone(parked)


\* Two calls for different paths have both ended, each with its own capture
\* and a response inspector run on its own handler's response.
C19_Witness ==
    /\ pc = "done" /\ parked.pc = "done"
    /\ request.path # parked.request.path
    /\ context.pathVariables # {} /\ parked.context.pathVariables # {}
    /\ context.pathVariables # parked.context.pathVariables
    /\ responseInspectors # <<>> /\ parked.responseInspectors # <<>>
    /\ result.kind = "resolved" /\ result.response.by = "handler"
    /\ parked.result.kind = "resolved" /\ parked.result.response.by = "handler"
    /\ EndedAsAlone(Locals) /\ EndedAsAlone(parked)

\* The trie of method m as the first k registration calls build it.
RECURSIVE BuiltUpTo(_, _)
BuiltUpTo(m, k) ==
    IF k = 0 THEN <<NewRouteNode>>
    ELSE LET t == BuiltUpTo(m, k - 1)
             r == regs[k]
         IN IF r.method # m THEN t
            ELSE addPathPropertyHelper(t, Root, pathSegmentsFromPath(r.path),
                    IF r.kind = "handler" THEN [kind |-> "handler", id |-> r.id]
                    ELSE [kind |-> "inspector", inspector |-> r.inspector])
Built == [m \in Methods |-> BuiltUpTo(m, Len(regs))]

\* C20: dispatch is read-only against the trie: every step that is not a
\* registration call leaves every trie as it is, so that the tries are at
\* all times what the registration calls alone built, whatever requests
\* (matched, unmatched, halted, faulted) were dispatched meanwhile.
C20_DispatchReadOnly ==
    /\ [](routes = Built)
    /\ [][regs' = regs => routes' = routes]_vars

\* A request that took the fault path has ended on a router with two
\* registrations, and the tries are what the registrations built.
C20_Witness ==
    /\ Done
    /\ Len(regs) = MaxRegs
    /\ SomeCallbackFailed({"requestInspector", "handler", "responseInspector"})
    /\ Len(routes["GET"]) > 2
    /\ routes = Built

\* The wildcard children (named-variable or splat) of node n of trie t.
WildcardChildren(t, n) ==
    {c \in 1..Len(t[n].childNodes) : t[t[n].childNodes[c]].isWildcard}

\* C21: after any sequence of registrations every trie node has at most one
\* wildcard child: a splat registered again, or where a wildcard child
\* already exists, uses the existing wildcard child.
C21_AtMostOneWildcardChild ==
    \A m \in Methods : \A n \in 1..Len(routes[m]) :
        Cardinality(WildcardChildren(routes[m], n)) <= 1

\* C21 for the tries no `*` path was registered on after another wildcard.
AtMostOneWildcardChildWithoutSplat ==
    (\A k \in 1..Len(regs) : \A i \in 1..Len(regs[k].path) : regs[k].path[i] # "*")
        => C21_AtMostOneWildcardChild

\* C22: splat is terminal: after any sequence of registrations a splat node
\* (pathVariable `*`) has no child nodes, so nothing is installed below it.
C22_SplatIsTerminal ==
    \A m \in Methods : \A n \in 1..Len(routes[m]) :
        (routes[m][n].isWildcard /\ routes[m][n].pathVariable = "*")
            => routes[m][n].childNodes = <<>>

\* The callbacks that are handed the Context.
ContextCallbacks ==
    {"requestInspector", "handler", "responseInspector", "notFound", "serverError"}

\* C23: every call of context.getPathParts() during a request, by an
\* inspector or a handler too, returns the same sequence, the split of the
\* URL's pathname on "/".
C23_PathPartsAreTheSplit ==
    \A i \in 1..Len(log) :
        log[i].ev \in ContextCallbacks => log[i].parts = Split(request.path)

\* What does hold: a callback is returned the parts the walk has not
\* consumed yet, a suffix of the split.
PathPartsAreASuffixOfTheSplit ==
    \A i \in 1..Len(log) :
        log[i].ev \in ContextCallbacks =>
            \E k \in 0..Len(Split(request.path)) :
                log[i].parts = SubSeq(Split(request.path), k + 1, Len(Split(request.path)))

\* The times handler k read its file while answering the current request.
ReadsWhileAnswering(k) ==
    {i \in 1..Len(log) : log[i].ev = "handler" /\ log[i].id = k /\ log[i].fileReads > 0}
Answering(k) ==
    {i \in 1..Len(log) : log[i].ev = "handler" /\ log[i].id = k}

\* C24: a file mounted with memoized = true was read once at mount time and
\* is served with no file read at request time; a file mounted with
\* memoized = false is read on each request it is served on.
C24_MountMemoized ==
    \A k \in 1..Len(regs) :
        regs[k].closure # "callback" =>
            IF regs[k].memoized
            THEN regs[k].readsAtMount = 1 /\ ReadsWhileAnswering(k) = {}
            ELSE ReadsWhileAnswering(k) = Answering(k)

\* What holds instead: the two cases the other way round.
MountMemoizedInverted ==
    \A k \in 1..Len(regs) :
        regs[k].closure # "callback" =>
            IF ~regs[k].memoized
            THEN regs[k].readsAtMount = 1 /\ ReadsWhileAnswering(k) = {}
            ELSE regs[k].readsAtMount = 0 /\ ReadsWhileAnswering(k) = Answering(k)


\* The request was received by a router constructed without a factory.
WithoutFactory ==
    /\ Len(log) > 0
    /\ log[1].ev = "factory" /\ log[1].out = AbsentFactory
\* The router holds one registration, a GET handler on a literal path, and
\* the request is a GET to that path.
GetToTheOnlyRoute ==
    /\ Len(regs) = 1
    /\ regs[1].kind = "handler" /\ regs[1].method = "GET"
    /\ IsLiteralPath(regs[1].path)
    /\ request.method = "GET" /\ request.path = regs[1].path

\* C25: a router constructed without a metadata factory dispatches
\* normally: a GET to a registered path resolves to the response of the
\* handler registered there.
C25_NoFactoryDispatches ==
    (Done /\ WithoutFactory /\ GetToTheOnlyRoute)
        => /\ result.kind = "resolved"
           /\ result.response.by = "handler" /\ result.response.id = 1

\* What holds instead: without a factory every call rejects and nothing that
\* was registered is invoked.
NoFactoryRejects ==
    (Done /\ WithoutFactory) => (result = Rejected /\ Len(log) = 1)


\* The walk stands at a node, past its inspectors, with parts left: the next
\* step pops a part and selects a child.
AboutToSelect ==
    /\ pc = "walk"
    /\ nextRouteNode # Undefined
    /\ inspectorIndex > Len(Node.inspectors)
    /\ Len(context.pathParts) > 0
\* The children of the current node that are literal nodes for the part
\* about to be popped.
LiteralChildren ==
    {c \in {Node.childNodes[i] : i \in 1..Len(Node.childNodes)} :
        ~Trie[c].isWildcard /\ Trie[c].pathSegment = Head(context.pathParts)}
\* Every wildcard child of the current node was added after a literal child
\* for the part about to be popped.
LiteralChildFirst ==
    \E i \in 1..Len(Node.childNodes) :
        /\ Node.childNodes[i] \in LiteralChildren
        /\ \A j \in 1..(i - 1) : ~Trie[Node.childNodes[j]].isWildcard

\* C26: at every step of the walk a literal child equal to the popped
\* segment is selected if the node has one, whatever the order the children
\* were registered in, and a wildcard child only when no literal child
\* matches.
C26_LiteralBeforeWildcard ==
    [][AboutToSelect =>
          IF LiteralChildren # {}
          THEN nextRouteNode' \in LiteralChildren
          ELSE nextRouteNode' = Undefined \/ Trie[nextRouteNode'].isWildcard]_vars

\* What holds instead: the literal child is selected when it was registered
\* before every wildcard child of the node.
LiteralSelectedWhenFirst ==
    [][(AboutToSelect /\ LiteralChildFirst) => nextRouteNode' \in LiteralChildren]_vars


\* Log entry i is a request inspector returning an outcome with no response
\* and shouldContinue false.
Malformed(i) == log[i].ev = "requestInspector" /\ log[i].out = "malformed"
\* After log entry i the dispatch did all the claim says: no handler, the
\* server-error handler once, the response inspectors collected before the
\* entry run on its output, and that output returned.
EndsWithServerError(i) ==
    /\ Invoked("handler") = <<>>
    /\ Invoked("notFound") = <<>>
    /\ Invoked("serverError") = <<0>>
    /\ Invoked("responseInspector") = responseInspectors
    /\ ContinuedBefore(i) \subseteq Collected
    /\ log[i].id \notin Collected
    /\ AllInspected(ServerErrorResponse)
    /\ result = Resolved(ServerErrorResponse)

EndedOnBareNode ==
    /\ request.method \in Methods
    /\ Undisturbed
    /\ nextRouteNode # Undefined
    /\ Len(context.pathParts) = 0
    /\ Node.handler = Undefined
\* The dispatch answered with the not-found handler's output, run through
\* the collected response inspectors.
AnsweredNotFound ==
    /\ Invoked("handler") = <<>>
    /\ Invoked("serverError") = <<>>
    /\ Invoked("notFound") = <<0>>
    /\ Invoked("responseInspector") = responseInspectors
    /\ AllInspected(NotFoundResponse)
    /\ result = Resolved(NotFoundResponse)

RECURSIVE WalkedNodes(_, _, _)
WalkedNodes(t, n, parts) ==
    IF parts = <<>> THEN <<n>>
    ELSE LET c == NextChild(t, n, Head(parts))
         IN IF c = Undefined THEN <<n>>
            ELSE <<n>> \o WalkedNodes(t, c, Tail(parts))
\* The splat children of node n of trie t that have a handler.
SplatsWithHandler(t, n) ==
    {c \in {t[n].childNodes[i] : i \in 1..Len(t[n].childNodes)} :
        t[c].isWildcard /\ t[c].pathVariable = "*" /\ t[c].handler # Undefined}
\* The handlers of the deepest splats with a handler among the children of
\* the walked nodes that the walk moved on from.
DeepestSplatHandlers ==
    LET walked == WalkedNodes(Trie, Root, request.path)
        seen == {i \in 1..Len(walked) : SplatsWithHandler(Trie, walked[i]) # {}}
        deepest == CHOOSE i \in seen : \A j \in seen : j <= i
    IN IF seen = {} THEN {}
       ELSE {Trie[c].handler : c \in SplatsWithHandler(Trie, walked[deepest])}
\* The walk, which no request inspector stopped, found no child for a part.
DeadEnded ==
    /\ request.method \in Methods
    /\ Undisturbed
    /\ nextRouteNode = Undefined
\* No handler and no response inspector failed.
NoAnswerFailed == ~SomeCallbackFailed({"handler", "responseInspector"})

\* C29: when the walk dead-ends, dispatch invokes the handler of the deepest
\* splat with a handler seen on the walked nodes if there is one, otherwise
\* the not-found handler, and in both cases the collected response
\* inspectors are run on the result (in dispatches in which neither the
\* handler nor a response inspector fails).
C29_DeadEndFallsBack ==
    (Done /\ DeadEnded /\ NoAnswerFailed) =>
        /\ IF DeepestSplatHandlers # {}
           THEN /\ \E h \in DeepestSplatHandlers : Invoked("handler") = <<h>>
                /\ Invoked("notFound") = <<>>
           ELSE /\ Invoked("handler") = <<>>
                /\ Invoked("notFound") = <<0>>
        /\ Invoked("responseInspector") = responseInspectors
        /\ result.kind = "resolved"
        /\ AllInspected(result.response)

\* What holds instead: the fallback is the handler of the splat last
\* recorded in closestWildcard, the first splat child of a node left behind
\* if that child has a handler, and the not-found handler when none was
\* recorded.
DeadEndUsesRecordedSplat ==
    (Done /\ DeadEnded /\ NoAnswerFailed) =>
        /\ IF closestWildcard # Undefined
           THEN /\ Invoked("handler") = <<Trie[closestWildcard].handler>>
                /\ Invoked("notFound") = <<>>
           ELSE /\ Invoked("handler") = <<>>
                /\ Invoked("notFound") = <<0>>
        /\ Invoked("responseInspector") = responseInspectors
        /\ result.kind = "resolved"
        /\ AllInspected(result.response)


\* No node of the request's trie has two splat children.
OneSplatPerNode ==
    \A n \in 1..Len(Trie) :
        Cardinality({c \in WildcardChildren(Trie, n) :
                        Trie[Trie[n].childNodes[c]].pathVariable = "*"}) <= 1
\* The claim holds on every trie in which no splat was registered twice at
\* the same place.
DeadEndFallsBackWithOneSplat ==
    (request.method \in Methods /\ OneSplatPerNode) => C29_DeadEndFallsBack


\* Log entry i is a request inspector that halted with a response or
\* returned a malformed outcome.
Stopped(i) ==
    log[i].ev = "requestInspector" /\ log[i].out \in {"halt", "malformed"}

\* C30: once a request inspector halts or returns a malformed outcome, no
\* further request inspector is invoked for that request, neither a later
\* entry of the same node nor an inspector of a deeper node.
C30_NoInspectorAfterStop ==
    \A i, j \in 1..Len(log) :
        (Stopped(i) /\ i < j) => log[j].ev # "requestInspector"

\* An inspector stopped the request, and an inspector registered after it, on
\* the same node or on a deeper node of the request's path, with a request
\* inspector in scope, was not invoked.
C30_Witness ==
    \E i \in 1..Len(log) : \E k \in 1..Len(regs) :
        /\ Done
        /\ Stopped(i)
        /\ log[i].id < k
        /\ regs[k].kind = "inspector"
        /\ regs[k].inspector.requestInspector
        /\ regs[k].inspector.observeChildPaths
        /\ IsLiteralPath(regs[k].path)
        /\ IsPrefixOf(regs[log[i].id].path, regs[k].path)
        /\ IsPrefixOf(regs[k].path, request.path)
        /\ k \notin InvokedSet("requestInspector")


\* The segment a path variable name is written with.
SegmentOf(pathVariable) ==
    CHOOSE s \in DOMAIN PathVariableOf : PathVariableOf[s] = pathVariable
\* The path of a registration from node n of trie t with every `:name`
\* segment that meets a named-variable child of another name written with
\* the name of that child.
RECURSIVE Renamed(_, _, _)
Renamed(t, n, pathSegments) ==
    IF Len(pathSegments) = 0 THEN <<>>
    ELSE
    LET pathSegment == Head(pathSegments)
        rest == Tail(pathSegments)
        next == IF pathSegment = "*" THEN Undefined
                ELSE IF IsPathVariableSegment(pathSegment)
                THEN FindChild(t, n, {c \in 1..Len(t) : t[c].isWildcard})
                ELSE FindChild(t, n, {c \in 1..Len(t) : t[c].pathSegment = pathSegment})
        named == /\ IsPathVariableSegment(pathSegment)
                 /\ next # Undefined
                 /\ t[next].pathVariable # "*"
    IN IF next = Undefined THEN pathSegments
       ELSE <<IF named THEN SegmentOf(t[next].pathVariable) ELSE pathSegment>>
                \o Renamed(t, next, rest)
\* A registration of path on trie t meets a named-variable child of another
\* name.
NameMismatch(t, path) == Renamed(t, Root, path) # path

\* The step is a registration call.
Registers == Len(regs') = Len(regs) + 1
\* What the call registers, as the closure is given it.
Registered(r) ==
    IF r.kind = "handler" THEN [kind |-> "handler", id |-> r.id]
    ELSE [kind |-> "inspector", inspector |-> r.inspector]

\* The named-variable children of node n of trie t.
NamedChildren(t, n) ==
    {c \in {t[n].childNodes[i] : i \in 1..Len(t[n].childNodes)} :
        t[c].isWildcard /\ t[c].pathVariable # "*"}

\* A registration that meets a child of another name builds the trie that
\* the same registration written with the existing names builds: no node is
\* added for the new name, no child changes its name, and the handler or
\* inspector goes where the existing names lead.
MismatchGoesThroughExistingChild ==
    [][(Registers /\ NameMismatch(routes[regs'[Len(regs')].method], regs'[Len(regs')].path))
        => LET r == regs'[Len(regs')]
               t == routes[r.method]
           IN /\ routes'[r.method] =
                    addPathPropertyHelper(t, Root, Renamed(t, Root, r.path), Registered(r))
              /\ \A c \in 1..Len(t) :
                    routes'[r.method][c].pathVariable = t[c].pathVariable
              /\ \A c \in 1..Len(routes'[r.method]) :
                    Cardinality(NamedChildren(routes'[r.method], c)) <= 1]_vars

\* Registration j made the named-variable child that follows the literal
\* path P, and the later registration k writes another name at that place.
NamesDiffer(j, k, P) ==
    /\ j < k
    /\ regs[j].method = regs[k].method
    /\ IsLiteralPath(P)
    /\ \A d \in 1..Len(P) : P[d] # ""
    /\ IsPrefixOf(P, regs[j].path) /\ Len(regs[j].path) > Len(P)
    /\ IsPrefixOf(P, regs[k].path) /\ Len(regs[k].path) > Len(P)
    /\ IsPathVariableSegment(regs[j].path[Len(P) + 1])
    /\ IsPathVariableSegment(regs[k].path[Len(P) + 1])
    /\ regs[j].path[Len(P) + 1] # regs[k].path[Len(P) + 1]
    /\ \A i \in 1..(j - 1) :
          (regs[i].method = regs[j].method /\ IsPrefixOf(P, regs[i].path)
           /\ Len(regs[i].path) > Len(P))
              => IsLiteralSegment(regs[i].path[Len(P) + 1])
                 /\ regs[i].path[Len(P) + 1] # ""
\* The walk of the current request has just taken the part that follows P,
\* a part no literal child stands for, and no wildcard lies on the way to P.
JustPast(P) ==
    /\ pc = "walk"
    /\ IsPrefixOf(P, request.path)
    /\ Len(request.path) > Len(P)
    /\ Len(context.pathParts) = Len(request.path) - Len(P) - 1
    /\ \A i \in 1..Len(regs) :
          regs[i].method = request.method =>
              /\ \A d \in 1..Len(P) :
                    d <= Len(regs[i].path) => IsLiteralSegment(regs[i].path[d])
                                              /\ regs[i].path[d] # ""
              /\ (IsPrefixOf(P, regs[i].path) /\ Len(regs[i].path) > Len(P))
                    => regs[i].path[Len(P) + 1] # request.path[Len(P) + 1]

\* A request through the place captures the part under the existing name
\* and under no other.
CapturedUnderExistingName ==
    \A j, k \in 1..Len(regs) : \A P \in SeqsUpTo({"a"}, 0, MaxDepth - 1) :
        (NamesDiffer(j, k, P) /\ request.method = regs[j].method /\ JustPast(P))
            => /\ nextRouteNode # Undefined
               /\ Trie[nextRouteNode].pathVariable
                     = PathVariableOf[regs[j].path[Len(P) + 1]]
               /\ context.pathVariables =
                     {<<PathVariableOf[regs[j].path[Len(P) + 1]],
                        request.path[Len(P) + 1]>>}

\* C31: when a named-variable child `:a` exists at a trie position and a
\* later registration writes another name `:b` there, the registration is
\* carried out through the existing child, no second wildcard child is
\* created, and requests through that position capture the segment under
\* the existing name only.
C31_ExistingNameWins ==
    MismatchGoesThroughExistingChild /\ []CapturedUnderExistingName

\* A handler registered on /:y after an inspector on /:x answers a request
\* whose part was captured under x.
C31_Witness ==
    \E j, k \in 1..Len(regs) :
        /\ Done
        /\ NamesDiffer(j, k, <<>>)
        /\ regs[k].kind = "handler"
        /\ Len(regs[k].path) = 1
        /\ request.path = <<"42">>
        /\ context.pathVariables = {<<PathVariableOf[regs[j].path[1]], "42">>}
        /\ Invoked("handler") = <<k>>


\* The place of the first `*` of a path, and whether segments follow it.
FirstSplat(path) ==
    CHOOSE i \in 1..Len(path) : path[i] = "*" /\ \A j \in 1..(i - 1) : path[j] # "*"
HasSegmentsAfterSplat(path) ==
    \E i \in 1..(Len(path) - 1) : path[i] = "*"
\* Registration k is on some node of some trie.
Installed(k) ==
    \E m \in Methods : \E c \in 1..Len(routes[m]) :
        \/ regs[k].kind = "handler" /\ routes[m][c].handler = k
        \/ regs[k].kind = "inspector"
           /\ \E i \in 1..Len(routes[m][c].inspectors) : routes[m][c].inspectors[i].id = k

\* A registration with segments after a `*` returns, leaves every node that
\* was there as it was but for new children, and adds bare literal nodes
\* for segments before the `*` at most: none for the `*`, none for what
\* follows it.
SegmentsAfterSplatDropped ==
    [][(Registers /\ HasSegmentsAfterSplat(regs'[Len(regs')].path))
        => LET r == regs'[Len(regs')]
               t == routes[r.method]
               u == routes'[r.method]
           IN /\ \A m \in Methods \ {r.method} : routes'[m] = routes[m]
              /\ Len(u) - Len(t) \in 0..(FirstSplat(r.path) - 1)
              /\ \A c \in 1..Len(t) :
                    /\ u[c].handler = t[c].handler
                    /\ u[c].inspectors = t[c].inspectors
                    /\ u[c].pathSegment = t[c].pathSegment
                    /\ u[c].isWildcard = t[c].isWildcard
                    /\ u[c].pathVariable = t[c].pathVariable
                    /\ IsPrefixOf(t[c].childNodes, u[c].childNodes)
              /\ \A c \in (Len(t) + 1)..Len(u) :
                    /\ u[c].handler = Undefined
                    /\ u[c].inspectors = <<>>
                    /\ ~u[c].isWildcard]_vars

\* The handler or inspector of such a registration is on no node.
SegmentsAfterSplatInstallNothing ==
    \A k \in 1..Len(regs) : HasSegmentsAfterSplat(regs[k].path) => ~Installed(k)

\* C32: registering a handler or inspector on a path with further segments
\* after a `*` returns normally, creates no node for the extra segments,
\* installs the handler or inspector on no node, and leaves every handler
\* and inspector registered before unchanged.
C32_SegmentsAfterSplatIgnored ==
    SegmentsAfterSplatDropped /\ []SegmentsAfterSplatInstallNothing

\* After a handler on /a, a registration on /a/*/a was dropped, and a request
\* for /a is still answered by the handler.
C32_Witness ==
    \E j, k \in 1..Len(regs) :
        /\ Done
        /\ j < k
        /\ regs[j].kind = "handler" /\ regs[j].path = <<"a">>
        /\ regs[k].path = <<"a", "*", "a">>
        /\ ~Installed(k)
        /\ request.path = <<"a">>
        /\ Invoked("handler") = <<j>>


\* The request now handled carries a method that has no trie, and the
\* metadata factory returned.
UnsupportedMethodReceived ==
    /\ pc # "idle"
    /\ request.method \notin {"GET", "HEAD", "POST"}
    /\ Len(log) > 0 /\ log[1].ev = "factory" /\ log[1].out = "returns"

\* C33: a request whose method is not GET, HEAD or POST is resolved at once
\* to the not-found handler's output: no trie is walked, no request or
\* response inspector is invoked, not even one registered with
\* addAllInspector at the root, no route handler runs and the server-error
\* handler is not invoked.
C33_UnsupportedMethodIsNotFound ==
    UnsupportedMethodReceived =>
        /\ Done
        /\ result = Resolved(NotFoundResponse)
        /\ Invoked("notFound") = <<0>>
        /\ Invoked("requestInspector") = <<>>
        /\ Invoked("responseInspector") = <<>>
        /\ Invoked("handler") = <<>>
        /\ Invoked("serverError") = <<>>
        /\ nextRouteNode = Undefined
        /\ ~context.memoized
        /\ responseInspectors = <<>>

\* A PUT to / on a router with an inspector on every method at the root,
\* holding both a request and a response inspector.
C33_Witness ==
    /\ UnsupportedMethodReceived
    /\ request = [method |-> "PUT", path |-> <<"">>]
    /\ \E k \in 1..Len(regs) :
          /\ regs[k].method = "ALL"
          /\ regs[k].path = <<>>
          /\ regs[k].inspector.requestInspector
          /\ regs[k].inspector.responseInspector
    /\ result = Resolved(NotFoundResponse)


\* Log entry i is a request inspector whose outcome has its response set.
GaveResponse(i) == log[i].ev = "requestInspector" /\ ResponseSet(log[i].out)

\* C34: whenever a request inspector's outcome has its response set, the
\* request call chain ends there and that response starts the response
\* chain, whatever shouldContinue is: no later request inspector and no route
\* handler is invoked, and the response handed on is the inspector's.
C34_ResponseAlwaysHalts ==
    \A i \in 1..Len(log) :
        GaveResponse(i) =>
            /\ pc \in {"respond", "done"}
            /\ response = InspectorResponse(log[i].id)
            /\ \A j \in (i + 1)..Len(log) :
                  /\ log[j].ev \in {"metaWrite", "responseInspector"}
                  /\ log[j].ev = "responseInspector"
                        => log[j].resp = InspectorResponse(log[i].id)
            /\ Invoked("handler") = <<>>
            /\ Invoked("notFound") = <<>>
            /\ Invoked("serverError") = <<>>
            /\ (Done /\ ~SomeCallbackFailed({"responseInspector"}))
                  => result = Resolved(InspectorResponse(log[i].id))

\* An inspector on the path of a registered handler returned a response with
\* shouldContinue = true, and the response was returned.
C34_Witness ==
    \E i \in 1..Len(log) : \E k \in 1..Len(regs) :
        /\ Done
        /\ log[i].ev = "requestInspector" /\ log[i].out = "haltContinue"
        /\ regs[k].kind = "handler"
        /\ IsLiteralPath(regs[k].path)
        /\ request.path = regs[k].path
        /\ result = Resolved(InspectorResponse(log[i].id))


\* requestHandler has been called and its promise has not settled.
Dispatching == pc \in {"walk", "respond"}
\* The nodes the walk has stood on so far: the root and one node for each
\* part taken off that led to a node.
NodesVisited ==
    (Len(request.path) - Len(context.pathParts))
        + (IF nextRouteNode = Undefined THEN 0 ELSE 1)

\* Every dispatch settles.
DispatchSettles == Dispatching ~> Done
\* Each step of the walk takes one part off, so the walk stands on at most
\* (number of path segments + 1) nodes.
WalkIsBounded ==
    (pc = "walk") => /\ Len(context.pathParts) <= Len(request.path)
                     /\ NodesVisited <= Len(request.path) + 1
OneSegmentPerStep ==
    [][(pc = "walk" /\ nextRouteNode' # nextRouteNode)
          => Len(context'.pathParts) = Len(context.pathParts) - 1]_vars

\* C35: if every inspector, handler and fallback handler that is invoked
\* terminates, dispatch of any request against any trie terminates with a
\* response, the walk taking one path segment at each step and visiting at
\* most (number of path segments + 1) nodes.
C35_DispatchTerminatesWithResponse ==
    /\ DispatchSettles
    /\ [](Done => result.kind = "resolved")
    /\ []WalkIsBounded
    /\ OneSegmentPerStep

\* What holds instead: every dispatch settles within the bound, by resolving
\* to a response or by rejecting.
DispatchTerminates ==
    /\ DispatchSettles
    /\ [](Done => result.kind \in {"resolved", "rejected"})
    /\ []WalkIsBounded
    /\ OneSegmentPerStep
\* Rejections come from failing callbacks only.
RejectsOnlyOnFault ==
    (Done /\ result.kind = "rejected")
        => SomeCallbackFailed({"factory", "handler", "responseInspector"})


\* The record of the calls of one loop, and the callbacks it called.
CallsOf(loop) == SelectSeq(server.calls, LAMBDA c : c.loop = loop)
CalledOf(loop) ==
    LET cs == SelectSeq(server.calls, LAMBDA c : c.loop = loop /\ c.ev = "called")
    IN [i \in 1..Len(cs) |-> cs[i].id]
\* In the record of a loop every call is followed by its own settling before
\* the next call: the record is call, settle, call, settle, ...
EachAwaited(loop) ==
    LET cs == CallsOf(loop) IN
    \A i \in 1..Len(cs) :
        IF i % 2 = 1 THEN cs[i].ev = "called"
        ELSE cs[i].ev # "called" /\ cs[i].id = cs[i - 1].id
\* The loop has called and awaited every callback of the list, in order.
RanAll(loop, callbacks) ==
    /\ CalledOf(loop) = callbacks
    /\ Len(CallsOf(loop)) = 2 * Len(callbacks)

\* Callbacks are called in registration order, each awaited before the next.
CallbacksInOrder ==
    /\ IsPrefixOf(CalledOf("listen"), server.listenCallbacks)
    /\ IsPrefixOf(CalledOf("finished"), server.finishedCallbacks)
    /\ EachAwaited("listen")
    /\ EachAwaited("finished")
\* When onListen returns every listen callback has run, and when the
\* process exits every finished callback has run.
AllCallbacksRun ==
    /\ server.listening = "done" => RanAll("listen", server.listenCallbacks)
    /\ server.exited => RanAll("finished", server.finishedCallbacks)
\* Once the server listens, every listen callback is called, unless the
\* process exits first; once the server has finished, the process exits.
ListenCallbacksAllCalled ==
    \A k \in 1..MaxCallbacks :
        (server.listening = "loop" /\ k <= Len(server.listenCallbacks))
            ~> (Len(CalledOf("listen")) >= k \/ server.exited)
FinishedLeadsToExit == (server.finishing = "loop") ~> server.exited

\* C36: server listen callbacks are invoked in registration order once the
\* server starts listening, each awaited before the next, and a callback
\* that throws or rejects does not prevent the later ones from running;
\* likewise all server-finished callbacks run in registration order, each
\* awaited, before the process exits.
C36_ServerCallbacksRunInOrder ==
    /\ []CallbacksInOrder
    /\ []AllCallbacksRun
    /\ ListenCallbacksAllCalled
    /\ FinishedLeadsToExit

\* The process exited after two listen callbacks, the first of which threw,
\* and two finished callbacks, the first of which rejected, had all run.
C36_Witness ==
    /\ server.exited
    /\ server.listening = "done"
    /\ Len(server.listenCallbacks) = 2 /\ Len(server.finishedCallbacks) = 2
    /\ RanAll("listen", server.listenCallbacks)
    /\ RanAll("finished", server.finishedCallbacks)
    /\ \E i, j \in 1..Len(server.calls) :
          /\ server.calls[i] = Call("listen", server.listenCallbacks[1], "throws")
          /\ server.calls[j] = Call("finished", server.finishedCallbacks[1], "rejects")


\* The mounted paths of the regular files of the target directory tree.
RegularFiles ==
    LET filesOf(dir, mountDir) ==
            {mountDir \o <<mounting.tree[dir][i].name>> :
                i \in {j \in 1..Len(mounting.tree[dir]) :
                          mounting.tree[dir][j].kind = "file"}}
        subdirectories ==
            {mounting.tree.root[i].name :
                i \in {j \in 1..Len(mounting.tree.root) :
                          mounting.tree.root[j].kind = "directory"}}
    IN filesOf("root", <<>>) \cup UNION {filesOf(d, <<d>>) : d \in subdirectories}
\* The paths that hold a GET handler of the mount.
MountedPaths ==
    {regs[k].path : k \in {j \in 1..Len(regs) : regs[j].closure # "callback"}}

\* C37: when the promise returned by mountFiles has resolved and the
\* caller's await has returned, a GET handler is registered for every regular
\* file of the target directory tree, subdirectories included, and no
\* registration of that mount happens afterwards.
C37_MountCompleteOnReturn ==
    /\ [](mounting.returned => MountedPaths = RegularFiles)
    /\ [][mounting.returned => regs' = regs]_vars

\* What holds instead: the mount is complete on return when the files are
\* served directly (no await in the call) or the directory has no
\* subdirectory, and in every case once no call is suspended any more.
MountCompleteWithoutAwait ==
    (mounting.returned /\ mounting.memoized) => MountedPaths = RegularFiles
MountCompleteWithoutSubdirectory ==
    (mounting.returned /\ \A i \in 1..Len(mounting.tree.root) :
                              mounting.tree.root[i].kind # "directory")
        => MountedPaths = RegularFiles
MountCompleteInTheEnd ==
    (mounting.started /\ mounting.stack = <<>>
     /\ \A k \in 1..Len(mounting.frames) : mounting.frames[k].status = "resolved")
        => MountedPaths = RegularFiles
====
